---- MODULE Spec2Model ----
(***************************************************************************)
(* Trading-intelligence pipeline of intraday-insight: the signal scorer    *)
(* (trading-intelligence), the exit monitor (exit-monitor), the paper      *)
(* trading simulator (simulate-trade) and the outcome learner              *)
(* (learning-engine), over the tables they share.                          *)
(*                                                                         *)
(* Numbers: prices and PnL are integers (rupees); multipliers are kept as  *)
(* scaled integers (tenths, hundredths) so that the JavaScript arithmetic  *)
(* is reproduced exactly.                                                  *)
(***************************************************************************)
EXTENDS Integers, Sequences, FiniteSets, Bags, TLC

VARIABLES
    market_conditions,   \* market_conditions: the newest row, if any
    trading_rules,       \* the 'default' row of trading_rules
    trading_state,       \* trading_state: the newest row (user_id null), if any
    now,                 \* wall clock, minutes since 00:00 UTC of the first day
    response,            \* last response of the trading-intelligence function
    last_price,          \* stocks.last_price of the traded symbol, or NullNum
    indicator_cache,     \* indicator_cache: the newest row of each symbol, the
                         \* traded symbol first
    signals,             \* signals table: id -> row
    trades,              \* trades table: id -> row
    trade_exits,         \* trade_exits table: a bag of rows
    mon,                 \* exit-monitor monitor_all requests in flight
    simulator_mode,      \* user_settings.simulator_mode
    simulated_trades,    \* simulated_trades table: rows in insertion order
    learning_adjustments,\* learning_adjustments table: rows in insertion order
    system_logs,         \* system_logs table: a bag of messages
    learner,             \* learning-engine apply_adjustments requests in flight
    learning_response,   \* last response of the learning-engine function
    analysis,            \* last response of the market-conditions function
    candles,             \* the candles of the request to the indicators
                         \* function, in the order supplied
    indicators_response, \* last response of the indicators function
    requests,            \* trading-intelligence requests between their
                         \* database round trips
    exit_response,       \* last response of an exit-monitor check_single
    sim                  \* simulate-trade requests between their database
                         \* round trips

vars == <<market_conditions, trading_rules, trading_state, now, response,
          last_price, indicator_cache, signals, trades, trade_exits, mon,
          simulator_mode, simulated_trades, learning_adjustments, system_logs,
          learner, learning_response, analysis, candles, indicators_response,
          requests, exit_response, sim>>

\* What the indicators function reads and answers.
indicatorVars == <<candles, indicators_response>>

\* What the learning engine writes besides trading_rules.
learningVars == <<learning_adjustments, system_logs, learner, learning_response>>

\* null in a text column or field
Null == "<null>"

\* null / undefined in a numeric column or argument
NullNum == 0 - 1000000000

\* A query that returns at most one row (maybeSingle) yields <<>> or <<row>>.
NoRow == <<>>

Conditions == {"TRENDING", "RANGE", "HIGH_VOLATILITY", "NO_TRADE"}

(***************************************************************************)
(* JavaScript helpers                                                      *)
(***************************************************************************)
Abs(x) == IF x < 0 THEN -x ELSE x

\* JavaScript truthiness of a numeric column: null and 0 are falsy.
Truthy(x) == x # NullNum /\ x # 0

\* Math.round(n / d) for d > 0: nearest integer, ties toward +Infinity.
MathRound(n, d) == (2 * n + d) \div (2 * d)

(***************************************************************************)
(* trading-intelligence: multipliers                                       *)
(***************************************************************************)
\* new Date().getUTCHours()
getUTCHours(t) == (t \div 60) % 24

\* getTimeMultiplier, in tenths.  istHour = (getUTCHours() + 5.5) % 24 is kept
\* in quarter hours: ist4 = 4 * istHour.
getTimeMultiplier(h) ==
    LET ist4 == (4 * h + 22) % 96 IN
    IF ist4 < 37 \/ ist4 >= 62 THEN 0
    ELSE IF ist4 >= 37 /\ ist4 < 40 THEN 7
    ELSE IF ist4 >= 40 /\ ist4 < 46 THEN 10
    ELSE IF ist4 >= 46 /\ ist4 < 56 THEN 8
    ELSE IF ist4 >= 56 /\ ist4 < 60 THEN 10
    ELSE 6

\* getMarketMultiplier, in tenths.
getMarketMultiplier(marketCondition) ==
    CASE marketCondition = "TRENDING" -> 12
      [] marketCondition = "RANGE" -> 8
      [] marketCondition = "HIGH_VOLATILITY" -> 6
      [] marketCondition = "NO_TRADE" -> 0
      [] OTHER -> 10

\* getRiskMultiplier below the consecutive-loss limit, in thousandths: the
\* consecutive-loss factor in hundredths times the daily-loss factor in
\* tenths.
riskFactors(state, rules) ==
    LET lossFactor ==
          IF state.consecutive_losses >= 2 THEN 70
          ELSE IF state.consecutive_losses >= 1 THEN 85
          ELSE 100
        \* lossPercent = |daily_pnl| / max_daily_loss compared with .8 .5 .3
        pnlFactor ==
          IF 10 * Abs(state.daily_pnl) > 8 * rules.max_daily_loss THEN 3
          ELSE IF 10 * Abs(state.daily_pnl) > 5 * rules.max_daily_loss THEN 6
          ELSE IF 10 * Abs(state.daily_pnl) > 3 * rules.max_daily_loss THEN 8
          ELSE 10
    IN lossFactor * pnlFactor

\* The stop one loss late.
getRiskMultiplier_StopOneLate(state, rules) ==
    IF state.consecutive_losses > rules.consecutive_loss_limit THEN 0
    ELSE riskFactors(state, rules)

\* getRiskMultiplier, in thousandths.
getRiskMultiplier(state, rules) ==
    IF state.consecutive_losses >= rules.consecutive_loss_limit THEN 0
    ELSE riskFactors(state, rules)

\* Math.round(rawScore * marketMultiplier * timeMultiplier * riskMultiplier)
finalScoreOf(rawScore, marketCondition, state, rules, h) ==
    MathRound(rawScore * getMarketMultiplier(marketCondition)
                       * getTimeMultiplier(h)
                       * getRiskMultiplier(state, rules),
              100000)

(***************************************************************************)
(* trading-intelligence: the tradability gate.  GateCheck(i, ...) is the   *)
(* i-th condition of the if / else-if chain, GateReason(i, ...) the        *)
(* rejectionReason its branch assigns.                                     *)
(***************************************************************************)
GateCheck(i, finalScore, marketCondition, state, rules, h) ==
    CASE i = 1 -> marketCondition = "NO_TRADE"
      [] i = 2 -> ~state.auto_mode_active
      [] i = 3 -> state.trades_today >= rules.max_daily_trades
      [] i = 4 -> state.daily_pnl <= -rules.max_daily_loss
      [] i = 5 -> state.consecutive_losses >= rules.consecutive_loss_limit
      [] i = 6 -> finalScore < rules.min_score_threshold
      [] i = 7 -> getTimeMultiplier(h) = 0

GateReason(i, finalScore, state, rules) ==
    CASE i = 1 -> "Market conditions not suitable for trading"
      [] i = 2 -> IF state.stop_reason # Null THEN state.stop_reason
                  ELSE "Auto-mode disabled"
      [] i = 3 -> "Daily trade limit reached ("
                    \o ToString(rules.max_daily_trades) \o ")"
      [] i = 4 -> "Daily loss limit reached (Rs"
                    \o ToString(rules.max_daily_loss) \o ")"
      [] i = 5 -> "Consecutive loss limit reached ("
                    \o ToString(rules.consecutive_loss_limit) \o ")"
      [] i = 6 -> "Score below threshold (" \o ToString(finalScore) \o " < "
                    \o ToString(rules.min_score_threshold) \o ")"
      [] i = 7 -> "Market is closed"

\* The chain without its first test.
GateOrder_NoRegimeTest == <<2, 3, 4, 5, 6, 7>>

\* The chain with the two loss tests exchanged.
GateOrder_LossTestsSwapped == <<1, 2, 3, 5, 4, 6, 7>>

\* The order in which the else-if chain tests the conditions.
GateOrder == <<1, 2, 3, 4, 5, 6, 7>>

\* Position in GateOrder of the first condition that holds, 0 when none does.
FirstFailing(finalScore, marketCondition, state, rules, h) ==
    LET hit == {k \in 1..Len(GateOrder) :
                  GateCheck(GateOrder[k], finalScore, marketCondition, state, rules, h)}
    IN IF hit = {} THEN 0
       ELSE GateOrder[CHOOSE k \in hit : \A j \in hit : k <= j]

calculateFinalScore(rawScore, marketCondition, state, rules, h) ==
    LET finalScore == finalScoreOf(rawScore, marketCondition, state, rules, h)
        f == FirstFailing(finalScore, marketCondition, state, rules, h)
    IN [rawScore |-> rawScore,
        finalScore |-> finalScore,
        isTradable |-> (f = 0),
        rejectionReason |-> IF f = 0 THEN Null
                            ELSE GateReason(f, finalScore, state, rules)]

(***************************************************************************)
(* Shared lookups                                                          *)
(***************************************************************************)
MinutesPerDay == 24 * 60

\* new Date().toISOString().split('T')[0], as a day number
today(t) == t \div MinutesPerDay

\* The newest record taken whether or not it has expired.
getMarketCondition_AnyAge(row, t) ==
    IF row # NoRow THEN row[1].condition ELSE "RANGE"

\* market_conditions: .gte('expires_at', now) newest first, limit 1;
\* data?.condition || 'RANGE'
getMarketCondition(row, t) ==
    IF row # NoRow /\ row[1].expires_at >= t THEN row[1].condition ELSE "RANGE"

\* trading_state: .eq('date', today).maybeSingle()
stateOfToday(row, t) ==
    IF row # NoRow /\ row[1].date = today(t) THEN row ELSE NoRow

(***************************************************************************)
(* trading-intelligence: request handlers                                  *)
(***************************************************************************)
\* The row inserted when today's trading_state row does not exist.
newTradingState(t) ==
    [date |-> today(t), trades_today |-> 0, daily_pnl |-> 0,
     consecutive_losses |-> 0, auto_mode_active |-> TRUE, stop_reason |-> Null]

\* "Fetch or create trading state for today"
fetchOrCreateState(row, t) ==
    IF stateOfToday(row, t) = NoRow THEN <<newTradingState(t)>> ELSE row

\* calculateRawScore.  An indicator row keeps rsi and trend_strength as
\* integers, macd_histogram in thousandths, relative_volume in hundredths,
\* vwap and close (raw_data[0].close, NullNum without raw data) in rupees.
\* The score is summed in quarter points: trendScore is |trend_strength| / 4.
calculateRawScore(indicators) ==
    LET trendScore4 ==
          IF indicators.trend_strength # NullNum
          THEN (IF Abs(indicators.trend_strength) < 100
                THEN Abs(indicators.trend_strength) ELSE 100)
          ELSE 0
        rsi == indicators.rsi
        rsiScore ==
          IF rsi = NullNum THEN 0
          ELSE IF (rsi >= 30 /\ rsi <= 40) \/ (rsi >= 60 /\ rsi <= 70) THEN 15
          ELSE IF (rsi >= 25 /\ rsi <= 45) \/ (rsi >= 55 /\ rsi <= 75) THEN 10
          ELSE IF rsi < 20 \/ rsi > 80 THEN 5
          ELSE 0
        \* |vwapDiff| = |(currentPrice - vwap) / vwap| * 100 against 0.5 and 1
        vwapScore ==
          IF indicators.vwap # NullNum /\ Truthy(indicators.close)
                                       /\ indicators.vwap # 0
          THEN (IF 200 * Abs(indicators.close - indicators.vwap) < Abs(indicators.vwap)
                THEN 15
                ELSE IF 100 * Abs(indicators.close - indicators.vwap) < Abs(indicators.vwap)
                THEN 10
                ELSE 0)
          ELSE 0
        volumeScore ==
          IF indicators.relative_volume = NullNum THEN 0
          ELSE IF indicators.relative_volume > 150 THEN 15
          ELSE IF indicators.relative_volume > 120 THEN 10
          ELSE IF indicators.relative_volume > 80 THEN 5
          ELSE 0
        patternScore ==
          IF indicators.pattern_detected \in
                {"HAMMER", "BULLISH_ENGULFING", "INVERTED_HAMMER",
                 "SHOOTING_STAR", "BEARISH_ENGULFING"} THEN 10
          ELSE IF indicators.pattern_detected = "DOJI" THEN 3
          ELSE 0
        macdScore ==
          IF indicators.macd_histogram # NullNum /\ Abs(indicators.macd_histogram) > 1
          THEN (IF indicators.macd_histogram > 0 THEN 10 ELSE 8)
          ELSE 0
        score4 == 4 * (50 + rsiScore + vwapScore + volumeScore + patternScore
                          + macdScore) + trendScore4
        rounded == MathRound(score4, 4)
    IN IF rounded < 100 THEN rounded ELSE 100

\* The body of a trading-intelligence response: ok is isTradable for
\* score_signal and canEnter for check_entry; error is the message of a
\* status-400 answer; multipliers are in tenths (market, time) and
\* thousandths (risk).
scoreResponse(action, marketCondition, r, ok, multipliers) ==
    [action |-> action, error |-> Null, marketCondition |-> marketCondition,
     rawScore |-> r.rawScore, finalScore |-> r.finalScore, ok |-> ok,
     rejectionReason |-> r.rejectionReason, multipliers |-> multipliers]

\* A response without the multipliers object.
noMultipliers == [market |-> NullNum, time |-> NullNum, risk |-> NullNum]

errorResponse(action, message) ==
    [action |-> action, error |-> message, marketCondition |-> Null,
     rawScore |-> 0, finalScore |-> 0, ok |-> FALSE, rejectionReason |-> Null,
     multipliers |-> noMultipliers]

\* signalId is NullNum when the request carries none.
score_signal(signalId) ==
    LET state == fetchOrCreateState(trading_state, now)
        mc == getMarketCondition(market_conditions, now)
        rawScore == IF indicator_cache = NoRow THEN 0
                    ELSE calculateRawScore(indicator_cache[1])
        r == calculateFinalScore(rawScore, mc, state[1], trading_rules, getUTCHours(now))
    IN /\ trading_state' = state
       /\ IF indicator_cache = NoRow
          THEN /\ response' = errorResponse("score_signal",
                                 "No indicator data available for this symbol")
               /\ UNCHANGED signals
          ELSE /\ signals' = IF signalId = NullNum THEN signals
                             ELSE [signals EXCEPT ![signalId] =
                                    [@ EXCEPT !.raw_score = r.rawScore,
                                              !.final_score = r.finalScore,
                                              !.market_condition = mc,
                                              !.is_tradable = r.isTradable,
                                              !.rejection_reason = r.rejectionReason]]
               /\ response' =
                     scoreResponse("score_signal", mc, r, r.isTradable,
                        [market |-> getMarketMultiplier(mc),
                         time |-> getTimeMultiplier(getUTCHours(now)),
                         risk |-> getRiskMultiplier(state[1], trading_rules)])
       /\ UNCHANGED <<exit_response, sim, requests, indicatorVars, analysis, learningVars, market_conditions, trading_rules, now, last_price,
                      indicator_cache, trades, trade_exits, mon,
                      simulator_mode, simulated_trades>>

\* canEnter: scoreResult.isTradable && marketCondition !== 'NO_TRADE'
check_entry ==
    LET state == fetchOrCreateState(trading_state, now)
        mc == getMarketCondition(market_conditions, now)
        r == calculateFinalScore(0, mc, state[1], trading_rules, getUTCHours(now))
    IN /\ trading_state' = state
       /\ response' = scoreResponse("check_entry", mc, r,
                                    r.isTradable /\ mc # "NO_TRADE", noMultipliers)
       /\ UNCHANGED <<exit_response, sim, requests, indicatorVars, analysis, learningVars, market_conditions, trading_rules, now, last_price,
                      indicator_cache, signals, trades, trade_exits, mon,
                      simulator_mode, simulated_trades>>

(***************************************************************************)
(* trading-intelligence: a request step by step.  The requests carry no    *)
(* user id, so every row they read or insert has user_id NULL, which       *)
(* UNIQUE(user_id, date) lets repeat.  trading_state holds the rows in     *)
(* insertion order.                                                        *)
(***************************************************************************)
NumRequests == 2

Requesters == 1..NumRequests

MaxStateRows == 3

idleRequest == [pc |-> "idle", action |-> Null, marketCondition |-> Null, stateData |-> NoRow]

\* .eq('date', today).is('user_id', null).maybeSingle(): the row when exactly
\* one matches, null when none or several do
lookupState(tbl, t) ==
    LET matching == {k \in DOMAIN tbl : tbl[k].date = today(t)} IN
    IF Cardinality(matching) = 1
    THEN <<tbl[CHOOSE k \in matching : TRUE]>>
    ELSE NoRow

\* The request reads the regime, the rules and today's state.
ti_lookup(p, action) ==
    /\ requests[p].pc = "idle"
    /\ LET stateData == lookupState(trading_state, now) IN
       requests' = [requests EXCEPT ![p] =
          [pc |-> IF stateData = NoRow THEN "insert" ELSE "answer",
           action |-> action,
           marketCondition |-> getMarketCondition(market_conditions, now),
           stateData |-> stateData]]
    /\ UNCHANGED <<exit_response, sim, indicatorVars, analysis, learningVars, market_conditions, trading_rules,
                   trading_state, now, response, last_price, indicator_cache, signals,
                   trades, trade_exits, mon, simulator_mode, simulated_trades>>

\* if (!stateData): insert(...).select().single()
ti_insert(p) ==
    /\ requests[p].pc = "insert"
    /\ Len(trading_state) < MaxStateRows
    /\ trading_state' = Append(trading_state, newTradingState(now))
    /\ requests' = [requests EXCEPT ![p].pc = "answer",
                                    ![p].stateData = <<newTradingState(now)>>]
    /\ UNCHANGED <<exit_response, sim, indicatorVars, analysis, learningVars, market_conditions, trading_rules,
                   now, response, last_price, indicator_cache, signals,
                   trades, trade_exits, mon, simulator_mode, simulated_trades>>

statusResponse(marketCondition, state, rules, timeMultiplier) ==
    [action |-> "get_status", error |-> Null, marketCondition |-> marketCondition,
     tradingState |-> state, rules |-> rules, timeMultiplier |-> timeMultiplier]

\* switch (action): score_signal without a signal id, check_entry, get_status
ti_answer(p) ==
    /\ requests[p].pc = "answer"
    /\ LET mc == requests[p].marketCondition
           state == requests[p].stateData[1]
           rawScore == IF indicator_cache = NoRow THEN 0
                       ELSE calculateRawScore(indicator_cache[1])
           scoreResult == calculateFinalScore(rawScore, mc, state, trading_rules,
                                              getUTCHours(now))
           entryResult == calculateFinalScore(0, mc, state, trading_rules, getUTCHours(now))
       IN response' =
            CASE requests[p].action = "score_signal" ->
                   IF indicator_cache = NoRow
                   THEN errorResponse("score_signal",
                                      "No indicator data available for this symbol")
                   ELSE scoreResponse("score_signal", mc, scoreResult, scoreResult.isTradable,
                          [market |-> getMarketMultiplier(mc),
                           time |-> getTimeMultiplier(getUTCHours(now)),
                           risk |-> getRiskMultiplier(state, trading_rules)])
              [] requests[p].action = "check_entry" ->
                   scoreResponse("check_entry", mc, entryResult,
                                 entryResult.isTradable /\ mc # "NO_TRADE", noMultipliers)
              [] requests[p].action = "get_status" ->
                   statusResponse(mc, state, trading_rules,
                                  getTimeMultiplier(getUTCHours(now)))
    /\ requests' = [requests EXCEPT ![p] = idleRequest]
    /\ UNCHANGED <<exit_response, sim, indicatorVars, analysis, learningVars, market_conditions, trading_rules,
                   trading_state, now, last_price, indicator_cache, signals,
                   trades, trade_exits, mon, simulator_mode, simulated_trades>>

(***************************************************************************)
(* exit-monitor: evaluateExit.  Indicator rows keep rsi and               *)
(* trend_strength as integers, macd_histogram in thousandths,              *)
(* relative_volume in hundredths and vwap in rupees.                       *)
(***************************************************************************)
checkPriceStall(currentPrice, entryPrice, minutesOpen) ==
    \/ minutesOpen > 30 /\ 1000 * Abs(currentPrice - entryPrice) < 3 * entryPrice
    \/ minutesOpen > 45 /\ 1000 * Abs(currentPrice - entryPrice) < 5 * entryPrice

checkMomentumWeakening(indicators, tradeType) ==
    IF indicators = NoRow THEN FALSE
    ELSE IF tradeType = "BUY"
      THEN \/ Truthy(indicators[1].rsi) /\ indicators[1].rsi > 75
           \/ Truthy(indicators[1].macd_histogram) /\ indicators[1].macd_histogram < -1
           \/ Truthy(indicators[1].trend_strength) /\ indicators[1].trend_strength < -30
      ELSE \/ Truthy(indicators[1].rsi) /\ indicators[1].rsi < 25
           \/ Truthy(indicators[1].macd_histogram) /\ indicators[1].macd_histogram > 1
           \/ Truthy(indicators[1].trend_strength) /\ indicators[1].trend_strength > 30

checkVolumeDryUp(indicators) ==
    IF indicators = NoRow THEN FALSE
    ELSE Truthy(indicators[1].relative_volume) /\ indicators[1].relative_volume < 50

\* tolerance = vwap * 0.002
checkVwapLost(indicators, currentPrice, tradeType) ==
    IF indicators = NoRow THEN FALSE
    ELSE IF ~Truthy(indicators[1].vwap) THEN FALSE
    ELSE IF tradeType = "BUY"
      THEN 1000 * currentPrice < 998 * indicators[1].vwap
      ELSE 1000 * currentPrice > 1002 * indicators[1].vwap

\* A stalled price weighing 20 instead of 30.
exitScoreOf_LightStall(trade, currentPrice, indicators, minutesOpen) ==
      (IF checkPriceStall(currentPrice, trade.entry_price, minutesOpen) THEN 20 ELSE 0)
    + (IF checkMomentumWeakening(indicators, trade.trade_type) THEN 35 ELSE 0)
    + (IF checkVolumeDryUp(indicators) THEN 25 ELSE 0)
    + (IF checkVwapLost(indicators, currentPrice, trade.trade_type) THEN 30 ELSE 0)
    + (IF minutesOpen > 60 THEN 15 ELSE 0)

exitScoreOf(trade, currentPrice, indicators, minutesOpen) ==
      (IF checkPriceStall(currentPrice, trade.entry_price, minutesOpen) THEN 30 ELSE 0)
    + (IF checkMomentumWeakening(indicators, trade.trade_type) THEN 35 ELSE 0)
    + (IF checkVolumeDryUp(indicators) THEN 25 ELSE 0)
    + (IF checkVwapLost(indicators, currentPrice, trade.trade_type) THEN 30 ELSE 0)
    + (IF minutesOpen > 60 THEN 15 ELSE 0)

\* reasons, in the order they are pushed
exitReasons(trade, currentPrice, indicators, minutesOpen) ==
       (IF checkPriceStall(currentPrice, trade.entry_price, minutesOpen)
        THEN <<"Price stalled">> ELSE <<>>)
    \o (IF checkMomentumWeakening(indicators, trade.trade_type)
        THEN <<"Momentum weakening">> ELSE <<>>)
    \o (IF checkVolumeDryUp(indicators) THEN <<"Volume drying up">> ELSE <<>>)
    \o (IF checkVwapLost(indicators, currentPrice, trade.trade_type)
        THEN <<"Lost VWAP support/resistance">> ELSE <<>>)
    \o (IF minutesOpen > 60 THEN <<"Trade open too long">> ELSE <<>>)

\* reasons.join(', ')
RECURSIVE join(_)
join(rs) ==
    IF rs = <<>> THEN ""
    ELSE IF Len(rs) = 1 THEN rs[1]
    ELSE rs[1] \o ", " \o join(Tail(rs))

\* The regime flip tested before target and stop-loss.
evaluateExit_RegimeFirst(trade, currentPrice, indicators, marketCondition, targetPrice, stoplossPrice, t) ==
    IF marketCondition = "NO_TRADE" \/ marketCondition = "HIGH_VOLATILITY"
    THEN [shouldExit |-> TRUE, exitType |-> "EARLY_EXIT",
          reason |-> "Market condition changed to " \o marketCondition,
          confidence |-> 85]
    ELSE IF /\ Truthy(targetPrice)
            /\ \/ trade.trade_type = "BUY" /\ currentPrice >= targetPrice
               \/ trade.trade_type = "SELL" /\ currentPrice <= targetPrice
    THEN [shouldExit |-> TRUE, exitType |-> "TARGET_HIT",
          reason |-> "Target price reached", confidence |-> 100]
    ELSE [shouldExit |-> FALSE, exitType |-> Null,
          reason |-> "Conditions still favorable", confidence |-> 100]

\* targetPrice and stoplossPrice are NullNum when the caller passes none.
evaluateExit(trade, currentPrice, indicators, marketCondition, targetPrice, stoplossPrice, t) ==
    LET minutesOpen == t - trade.opened_at
        exitScore == exitScoreOf(trade, currentPrice, indicators, minutesOpen)
    IN
    IF /\ Truthy(targetPrice)
       /\ \/ trade.trade_type = "BUY" /\ currentPrice >= targetPrice
          \/ trade.trade_type = "SELL" /\ currentPrice <= targetPrice
    THEN [shouldExit |-> TRUE, exitType |-> "TARGET_HIT",
          reason |-> "Target price reached", confidence |-> 100]
    ELSE IF /\ Truthy(stoplossPrice)
            /\ \/ trade.trade_type = "BUY" /\ currentPrice <= stoplossPrice
               \/ trade.trade_type = "SELL" /\ currentPrice >= stoplossPrice
    THEN [shouldExit |-> TRUE, exitType |-> "STOPLOSS_HIT",
          reason |-> "Stoploss triggered", confidence |-> 100]
    ELSE IF marketCondition = "NO_TRADE" \/ marketCondition = "HIGH_VOLATILITY"
    THEN [shouldExit |-> TRUE, exitType |-> "EARLY_EXIT",
          reason |-> "Market condition changed to " \o marketCondition,
          confidence |-> 85]
    ELSE IF exitScore >= 50
    THEN [shouldExit |-> TRUE, exitType |-> "EARLY_EXIT",
          reason |-> join(exitReasons(trade, currentPrice, indicators, minutesOpen)),
          confidence |-> IF exitScore + 20 < 95 THEN exitScore + 20 ELSE 95]
    ELSE [shouldExit |-> FALSE, exitType |-> Null,
          reason |-> "Conditions still favorable",
          confidence |-> 100 - exitScore]

\* The response of check_single: the trade, the price and the regime read
\* and the exit decision.
exitResponse(error, tradeId, currentPrice, marketCondition, d) ==
    [error |-> error, tradeId |-> tradeId, currentPrice |-> currentPrice,
     marketCondition |-> marketCondition, shouldExit |-> d.shouldExit,
     exitType |-> d.exitType, reason |-> d.reason, confidence |-> d.confidence]

noDecision ==
    [shouldExit |-> FALSE, exitType |-> Null, reason |-> Null, confidence |-> NullNum]

noExitResponse == exitResponse(Null, NullNum, NullNum, Null, noDecision)

\* check_single: the trade is looked up by id whatever its status, and
\* evaluateExit is called without target and stop-loss.
check_single(tradeId) ==
    /\ exit_response' =
         IF tradeId \notin DOMAIN trades
         THEN exitResponse("Trade not found", NullNum, NullNum, Null, noDecision)
         ELSE LET trade == trades[tradeId]
                  currentPrice == IF Truthy(last_price) THEN last_price
                                  ELSE trade.entry_price
                  marketCondition == getMarketCondition(market_conditions, now)
              IN exitResponse(Null, tradeId, currentPrice, marketCondition,
                    evaluateExit(trade, currentPrice, indicator_cache, marketCondition,
                                 NullNum, NullNum, now))
    /\ UNCHANGED <<sim, requests, indicatorVars, analysis, learningVars, market_conditions,
                   trading_rules, trading_state, now, response, last_price,
                   indicator_cache, signals, trades, trade_exits, mon,
                   simulator_mode, simulated_trades>>

(***************************************************************************)
(* exit-monitor: monitor_all, one step per database round trip group       *)
(***************************************************************************)
NumMonitors == 2

Monitors == 1..NumMonitors

TradeIds == DOMAIN trades

idleMonitor ==
    [pc |-> "idle", marketCondition |-> Null, openTrades |-> <<>>, i |-> 0,
     currentPrice |-> 0, exitReason |-> Null, exitType |-> Null,
     confidence |-> 0, pnl |-> 0, stateData |-> NoRow]

\* ids of the rows with status OPEN, in id order
RECURSIVE openIds(_, _)
openIds(tbl, k) ==
    IF k > Len(tbl) THEN <<>>
    ELSE (IF tbl[k].status = "OPEN" THEN <<k>> ELSE <<>>) \o openIds(tbl, k + 1)

\* Reads the market condition and the open trades; row snapshots are kept.
mon_start(m) ==
    /\ mon[m].pc = "idle"
    /\ LET ids == openIds(trades, 1) IN
       /\ ids # <<>>
       /\ mon' = [mon EXCEPT ![m] =
            [idleMonitor EXCEPT
               !.pc = "eval",
               !.marketCondition = getMarketCondition(market_conditions, now),
               !.openTrades = [k \in 1..Len(ids) |->
                                 [id |-> ids[k], row |-> trades[ids[k]]]],
               !.i = 1]]
    /\ UNCHANGED <<exit_response, sim, requests, indicatorVars, analysis, learningVars, market_conditions, trading_rules, trading_state, now, response,
                   last_price, indicator_cache, signals, trades, trade_exits,
                   simulator_mode, simulated_trades>>

\* the loop moves to the next trade, or the request returns
nextTrade(r) ==
    IF r.i < Len(r.openTrades)
    THEN [r EXCEPT !.pc = "eval", !.i = r.i + 1]
    ELSE idleMonitor

\* realised PnL of closing trade row tr at price p
pnlOf(tr, p) ==
    (p - tr.entry_price) * tr.quantity * (IF tr.trade_type = "BUY" THEN 1 ELSE -1)

\* Reads indicators, price and the linked signal, then evaluates the exit.
mon_eval(m) ==
    /\ mon[m].pc = "eval"
    /\ LET r == mon[m]
           trade == r.openTrades[r.i].row
           currentPrice == IF Truthy(last_price) THEN last_price ELSE trade.entry_price
           linked == trade.signal_id # NullNum
           targetPrice == IF linked THEN signals[trade.signal_id].target_price
                          ELSE NullNum
           stoplossPrice == IF linked THEN signals[trade.signal_id].stoploss_price
                            ELSE NullNum
           d == evaluateExit(trade, currentPrice, indicator_cache, r.marketCondition,
                             targetPrice, stoplossPrice, now)
       IN mon' = [mon EXCEPT ![m] =
            IF d.shouldExit
            THEN [r EXCEPT !.pc = "close", !.currentPrice = currentPrice,
                           !.exitReason = d.reason, !.exitType = d.exitType,
                           !.confidence = d.confidence,
                           !.pnl = pnlOf(trade, currentPrice)]
            ELSE nextTrade(r)]
    /\ UNCHANGED <<exit_response, sim, requests, indicatorVars, analysis, learningVars, market_conditions, trading_rules, trading_state, now, response,
                   last_price, indicator_cache, signals, trades, trade_exits,
                   simulator_mode, simulated_trades>>

\* trades.update({status: 'CLOSED', ...}).eq('id', trade.id)
closedRow(row, snapshot, r, t) ==
    [row EXCEPT !.status = "CLOSED",
                !.exit_price = r.currentPrice,
                !.closed_at = t,
                !.pnl = r.pnl,
                !.exit_reason = r.exitReason,
                !.time_held_minutes = t - snapshot.opened_at]

\* Updates the trade row and inserts the trade_exits row.
mon_close(m) ==
    /\ mon[m].pc = "close"
    /\ LET r == mon[m]
           id == r.openTrades[r.i].id
           snapshot == r.openTrades[r.i].row
       IN /\ trades' = [trades EXCEPT ![id] = closedRow(trades[id], snapshot, r, now)]
          /\ trade_exits' = trade_exits (+) SetToBag({
                [trade_id |-> id,
                 exit_reason |-> r.exitReason,
                 exit_type |-> r.exitType,
                 market_condition |-> r.marketCondition,
                 time_held_minutes |-> now - snapshot.opened_at,
                 pnl_at_exit |-> r.pnl]})
          /\ mon' = [mon EXCEPT ![m].pc = "read_state"]
    /\ UNCHANGED <<exit_response, sim, requests, indicatorVars, analysis, learningVars, market_conditions, trading_rules, trading_state, now, response,
                   last_price, indicator_cache, signals,
                   simulator_mode, simulated_trades>>

\* trading_state.select('*').eq('date', today).maybeSingle()
mon_read_state(m) ==
    /\ mon[m].pc = "read_state"
    /\ LET r == mon[m]
           stateData == stateOfToday(trading_state, now)
       IN mon' = [mon EXCEPT ![m] =
            IF stateData # NoRow
            THEN [r EXCEPT !.pc = "write_state", !.stateData = stateData]
            ELSE nextTrade(r)]
    /\ UNCHANGED <<exit_response, sim, requests, indicatorVars, analysis, learningVars, market_conditions, trading_rules, trading_state, now, response,
                   last_price, indicator_cache, signals, trades, trade_exits,
                   simulator_mode, simulated_trades>>

\* The row written back: the values read plus this trade's outcome.
stateAfterExit(row, stateData, pnl) ==
    [row EXCEPT !.daily_pnl = stateData.daily_pnl + pnl,
                !.consecutive_losses =
                    IF pnl < 0 THEN stateData.consecutive_losses + 1 ELSE 0]

\* trading_state.update({...}).eq('id', stateData.id)
mon_write_state(m) ==
    /\ mon[m].pc = "write_state"
    /\ LET r == mon[m] IN
       /\ trading_state' =
            IF trading_state # NoRow /\ trading_state[1].date = r.stateData[1].date
            THEN <<stateAfterExit(trading_state[1], r.stateData[1], r.pnl)>>
            ELSE trading_state
       /\ mon' = [mon EXCEPT ![m] = nextTrade(r)]
    /\ UNCHANGED <<exit_response, sim, requests, indicatorVars, analysis, learningVars, market_conditions, trading_rules, now, response,
                   last_price, indicator_cache, signals, trades, trade_exits,
                   simulator_mode, simulated_trades>>

(***************************************************************************)
(* simulate-trade: opening simulated trades                                *)
(***************************************************************************)
NumSimulators == 2

Simulators == 1..NumSimulators

idleSimulator ==
    [pc |-> "idle", signalId |-> NullNum, marketCondition |-> Null,
     newSignals |-> {}, openTrades |-> <<>>, i |-> 0, results |-> <<>>]

\* the system_logs row of execute_signal
createdLogMessage(signal) == "Created simulated " \o signal.signal_type \o " trade"

\* the system_logs row of process_new_signals
autoCreatedLogMessage(n) == "Auto-created " \o ToString(n) \o " simulated trades"

MaxSimTrades == 3

\* isSimulatorEnabled
isSimulatorEnabled == simulator_mode = "SIMULATOR"

\* createSimulatedTrade: the inserted row
createSimulatedTrade(signal, signalId, marketCondition, t) ==
    [signal_id |-> signalId,
     direction |-> signal.signal_type,
     entry_price |-> signal.entry_price,
     quantity |-> 1,
     status |-> "OPEN",
     entry_time |-> t,
     market_condition |-> marketCondition,
     confidence_at_entry |-> IF Truthy(signal.confidence) THEN signal.confidence
                             ELSE signal.final_score,
     exit_price |-> NullNum, exit_time |-> NullNum, exit_reason |-> Null,
     pnl |-> NullNum]

\* simulated_trades .eq('signal_id', id).eq('status', 'OPEN').maybeSingle():
\* a row when exactly one matches, null otherwise
existingTrade(tbl, signalId) ==
    Cardinality({k \in DOMAIN tbl :
                   tbl[k].signal_id = signalId /\ tbl[k].status = "OPEN"}) = 1

execute_signal(signalId) ==
    /\ isSimulatorEnabled
    /\ signals[signalId].is_active
    /\ ~existingTrade(simulated_trades, signalId)
    /\ getMarketCondition(market_conditions, now) # "NO_TRADE"
    /\ Len(simulated_trades) < MaxSimTrades
    /\ simulated_trades' = Append(simulated_trades,
          createSimulatedTrade(signals[signalId], signalId,
                               getMarketCondition(market_conditions, now), now))
    /\ system_logs' = system_logs (+) SetToBag({createdLogMessage(signals[signalId])})
    /\ UNCHANGED <<exit_response, sim, requests, indicatorVars, analysis, market_conditions, trading_rules, trading_state, now, response,
                   last_price, indicator_cache, signals, trades, trade_exits, mon,
                   simulator_mode, learning_adjustments, learner, learning_response>>

\* active, tradable, unexpired signals that no simulated trade refers to
newSignals(t) ==
    {id \in DOMAIN signals :
        /\ signals[id].is_active
        /\ signals[id].is_tradable
        /\ signals[id].expires_at # NullNum /\ signals[id].expires_at >= t
        /\ \A k \in DOMAIN simulated_trades : simulated_trades[k].signal_id # id}

\* rows created for the signals of ids, in id order
RECURSIVE createdFor(_, _, _, _)
createdFor(ids, k, marketCondition, t) ==
    IF k > Len(signals) THEN <<>>
    ELSE (IF k \in ids
          THEN <<createSimulatedTrade(signals[k], k, marketCondition, t)>>
          ELSE <<>>) \o createdFor(ids, k + 1, marketCondition, t)

process_new_signals ==
    /\ isSimulatorEnabled
    /\ getMarketCondition(market_conditions, now) # "NO_TRADE"
    /\ newSignals(now) # {}
    /\ Len(simulated_trades) + Cardinality(newSignals(now)) <= MaxSimTrades
    /\ simulated_trades' = simulated_trades \o
          createdFor(newSignals(now), 1,
                     getMarketCondition(market_conditions, now), now)
    /\ system_logs' = system_logs (+)
          SetToBag({autoCreatedLogMessage(Cardinality(newSignals(now)))})
    /\ UNCHANGED <<exit_response, sim, requests, indicatorVars, analysis, market_conditions, trading_rules, trading_state, now, response,
                   last_price, indicator_cache, signals, trades, trade_exits, mon,
                   simulator_mode, learning_adjustments, learner, learning_response>>

(***************************************************************************)
(* learning-engine: analysis.  Win rates are whole percents; the           *)
(* multipliers a proposal carries (currentValue, suggestedValue) and       *)
(* trading_rules.market_multiplier are kept in hundredths, average PnL in  *)
(* hundredths of a rupee.  Rows come back in id order.                     *)
(***************************************************************************)
\* Date.now() - 7 * 24 * 60 * 60 * 1000
AnalysisWindow == 7 * MinutesPerDay

\* trades: .eq('status', 'CLOSED').gte('closed_at', seven days ago)
closedTrades(t) ==
    {id \in DOMAIN trades : /\ trades[id].status = "CLOSED"
                            /\ trades[id].closed_at >= t - AnalysisWindow}

\* trade.pnl || 0
pnlOrZero(tr) == IF tr.pnl = NullNum THEN 0 ELSE tr.pnl

\* trade.signals?.market_condition || 'UNKNOWN'
conditionOfTrade(tr) ==
    IF tr.signal_id \notin DOMAIN signals THEN "UNKNOWN"
    ELSE IF signals[tr.signal_id].market_condition = Null THEN "UNKNOWN"
    ELSE signals[tr.signal_id].market_condition

\* The keys of conditionStats after the first k trades, in insertion order.
RECURSIVE conditionsSeen(_, _)
conditionsSeen(k, t) ==
    IF k = 0 THEN <<>>
    ELSE LET seen == conditionsSeen(k - 1, t)
             c == conditionOfTrade(trades[k])
         IN IF k \in closedTrades(t) /\ \A i \in DOMAIN seen : seen[i] # c
            THEN Append(seen, c)
            ELSE seen

RECURSIVE totalPnl(_)
totalPnl(ids) ==
    IF ids = {} THEN 0
    ELSE LET id == CHOOSE x \in ids : TRUE
         IN pnlOrZero(trades[id]) + totalPnl(ids \ {id})

analyzeByCondition(t) ==
    LET cs == conditionsSeen(Len(trades), t)
        of(c) == {id \in closedTrades(t) : conditionOfTrade(trades[id]) = c}
        wins(c) == Cardinality({id \in of(c) : pnlOrZero(trades[id]) > 0})
    IN [i \in DOMAIN cs |->
          [condition |-> cs[i],
           trades |-> Cardinality(of(cs[i])),
           wins |-> wins(cs[i]),
           winRate |-> MathRound(100 * wins(cs[i]), Cardinality(of(cs[i]))),
           avgPnl |-> MathRound(100 * totalPnl(of(cs[i])), Cardinality(of(cs[i])))]]

\* signal.final_score || signal.raw_score || 0
scoreOfSignal(s) ==
    IF Truthy(s.final_score) THEN s.final_score
    ELSE IF Truthy(s.raw_score) THEN s.raw_score
    ELSE 0

scoreBucket(score) ==
    IF score >= 80 THEN "80-100"
    ELSE IF score >= 60 THEN "60-80"
    ELSE IF score >= 40 THEN "40-60"
    ELSE "0-40"

ScoreBuckets == <<"0-40", "40-60", "60-80", "80-100">>

\* trades: .eq('signal_id', id).eq('status', 'CLOSED').maybeSingle(): the
\* row when there is exactly one, no data otherwise.
closedTradeOf(signalId) ==
    LET ids == {id \in DOMAIN trades : /\ trades[id].signal_id = signalId
                                       /\ trades[id].status = "CLOSED"}
    IN IF Cardinality(ids) = 1 THEN <<trades[CHOOSE id \in ids : TRUE]>> ELSE NoRow

\* signals: .not('raw_score', 'is', null)
scoredSignals == {id \in DOMAIN signals : signals[id].raw_score # NullNum}

\* buckets[b] once every signal has been looked at
bucketStats(b) ==
    LET members == {id \in scoredSignals :
                       /\ scoreBucket(scoreOfSignal(signals[id])) = b
                       /\ closedTradeOf(id) # NoRow}
    IN [total |-> Cardinality(members),
        wins |-> Cardinality({id \in members :
                                 pnlOrZero(closedTradeOf(id)[1]) > 0})]

analyzeScoreEffectiveness ==
    IF scoredSignals = {} THEN <<>>
    ELSE [i \in DOMAIN ScoreBuckets |->
            LET stats == bucketStats(ScoreBuckets[i])
            IN [scoreBucket |-> ScoreBuckets[i],
                winRate |-> IF stats.total > 0
                            THEN MathRound(100 * stats.wins, stats.total)
                            ELSE 0]]

MinSampleSize == 5

proposal(adjustmentType, currentValue, suggestedValue, reason) ==
    [adjustmentType |-> adjustmentType, currentValue |-> currentValue,
     suggestedValue |-> suggestedValue, reason |-> reason]

\* The body of the loop over conditionPerf.
conditionProposals(perf) ==
    IF perf.trades >= MinSampleSize
    THEN (IF perf.condition = "TRENDING" /\ perf.winRate < 50
          THEN <<proposal("market_multiplier_trending", 120, 100,
                          "TRENDING condition has " \o ToString(perf.winRate)
                             \o "% win rate, reduce multiplier")>>
          ELSE <<>>)
      \o (IF perf.condition = "RANGE" /\ perf.winRate > 60
          THEN <<proposal("market_multiplier_range", 80, 90,
                          "RANGE condition performing well ("
                             \o ToString(perf.winRate)
                             \o "% win rate), increase multiplier")>>
          ELSE <<>>)
      \o (IF perf.condition = "HIGH_VOLATILITY" /\ perf.winRate < 40
          THEN <<proposal("market_multiplier_volatility", 60, 40,
                          "HIGH_VOLATILITY has poor " \o ToString(perf.winRate)
                             \o "% win rate, reduce exposure")>>
          ELSE <<>>)
    ELSE <<>>

\* The body of the loop over scoreEffectiveness.
scoreProposals(se) ==
       (IF se.scoreBucket = "60-80" /\ se.winRate < 50
        THEN <<proposal("min_score_threshold", 60, 70,
                        "Scores 60-80 have " \o ToString(se.winRate)
                           \o "% win rate, raise threshold")>>
        ELSE <<>>)
    \o (IF se.scoreBucket = "80-100" /\ se.winRate > 70
        THEN <<proposal("high_confidence_bonus", 100, 110,
                        "High score trades have " \o ToString(se.winRate)
                           \o "% win rate, consider bonus")>>
        ELSE <<>>)

RECURSIVE conditionLoop(_, _)
conditionLoop(conditionPerf, k) ==
    IF k > Len(conditionPerf) THEN <<>>
    ELSE conditionProposals(conditionPerf[k]) \o conditionLoop(conditionPerf, k + 1)

RECURSIVE scoreLoop(_, _)
scoreLoop(scoreEffectiveness, k) ==
    IF k > Len(scoreEffectiveness) THEN <<>>
    ELSE scoreProposals(scoreEffectiveness[k]) \o scoreLoop(scoreEffectiveness, k + 1)

suggestAdjustments(conditionPerf, scoreEffectiveness) ==
    conditionLoop(conditionPerf, 1) \o scoreLoop(scoreEffectiveness, 1)

(***************************************************************************)
(* learning-engine: request handlers.  apply_adjustments awaits the rule   *)
(* row, then the proposals, then writes: three steps per request.          *)
(***************************************************************************)
MaxLogs == 3

NumLearners == 2

Learners == 1..NumLearners

idleLearner == [pc |-> "idle", rules |-> NoRow, since |-> 0, adjustments |-> <<>>]

learningResponse(action, message, suggestedAdjustments, appliedChanges) ==
    [action |-> action, message |-> message,
     suggestedAdjustments |-> suggestedAdjustments,
     appliedChanges |-> appliedChanges,
     scoreEffectiveness |-> <<>>]

\* upsert(row, { onConflict: 'condition_type' }) is INSERT ... ON CONFLICT
\* (condition_type), which needs a unique index on that column.  The
\* migrations give learning_adjustments none: every statement is rejected,
\* the handler does not look at the error, the table stays as it was.
upsertOnConditionType(tbl, rows) == tbl

analysisLogMessage(totalTrades, winRate) ==
    "Analysis complete: " \o ToString(totalTrades) \o " trades, "
       \o ToString(winRate) \o "% win rate"

\* what an analyze request writes
runAnalysis ==
    LET conditionPerformance == analyzeByCondition(now)
        scoreEffectiveness == analyzeScoreEffectiveness
        suggestedAdjustments == suggestAdjustments(conditionPerformance, scoreEffectiveness)
        allTrades == closedTrades(now)
        totalTrades == Cardinality(allTrades)
        winningTrades == Cardinality({id \in allTrades : pnlOrZero(trades[id]) > 0})
        winRate == IF totalTrades > 0 THEN MathRound(100 * winningTrades, totalTrades)
                   ELSE 0
    IN /\ BagCardinality(system_logs) < MaxLogs
       /\ learning_adjustments' =
             upsertOnConditionType(learning_adjustments, suggestedAdjustments)
       /\ system_logs' = system_logs (+) SetToBag({analysisLogMessage(totalTrades, winRate)})
       /\ learning_response' =
             [learningResponse("analyze", Null, suggestedAdjustments, <<>>)
                EXCEPT !.scoreEffectiveness = scoreEffectiveness]

analyze ==
    /\ runAnalysis
    /\ UNCHANGED <<exit_response, sim, requests, indicatorVars, analysis, market_conditions, trading_rules, trading_state, now,
                   response, last_price, indicator_cache, signals, trades,
                   trade_exits, mon, simulator_mode, simulated_trades, learner>>

\* Date.now() - 24 * 60 * 60 * 1000
ApplyWindow == MinutesPerDay

\* A fetch of the whole table, whatever the age of its rows.
allAdjustments(tbl, since) == tbl

\* learning_adjustments: .gte('last_updated', since)
recentAdjustments(tbl, since) ==
    SelectSeq(tbl, LAMBDA adj : adj.last_updated >= since)

apply_fetch(w) ==
    LET since == now - ApplyWindow
        adjustments == recentAdjustments(learning_adjustments, since)
    IN /\ learner[w].pc = "fetch"
       /\ IF Len(adjustments) = 0
          THEN /\ learner' = [learner EXCEPT ![w] = idleLearner]
               /\ learning_response' =
                     learningResponse("apply_adjustments",
                                      "No recent adjustments to apply", <<>>, <<>>)
          ELSE /\ learner' = [learner EXCEPT ![w] = [@ EXCEPT !.pc = "write",
                                                              !.since = since,
                                                              !.adjustments = adjustments]]
               /\ UNCHANGED learning_response
       /\ UNCHANGED <<exit_response, sim, requests, indicatorVars, analysis, market_conditions, trading_rules, trading_state, now,
                      response, last_price, indicator_cache, signals, trades,
                      trade_exits, mon, simulator_mode, simulated_trades,
                      learning_adjustments, system_logs>>

\* A step of twice the distance, past the proposal.
overshoot(current, proposed) == 2 * proposed - current

\* No step at all: the live value stays where it is.
damped_Frozen(current, proposed) == current

\* Math.round(current + (proposed - current) * 0.2)
damped(current, proposed) == MathRound(4 * current + proposed, 5)

\* The loop over the fetched proposals from the k-th on: newRules and
\* appliedChanges when it ends.  Every delta is taken from rules, the row as
\* it was read.
RECURSIVE applyLoop(_, _, _, _, _)
applyLoop(adjustments, k, rules, newRules, appliedChanges) ==
    IF k > Len(adjustments)
    THEN [newRules |-> newRules, appliedChanges |-> appliedChanges]
    ELSE IF adjustments[k].condition_type = "min_score_threshold"
    THEN LET v == damped(rules.min_score_threshold, adjustments[k].adjusted_value)
         IN applyLoop(adjustments, k + 1, rules,
                      [newRules EXCEPT !.min_score_threshold = v],
                      Append(appliedChanges,
                             "min_score_threshold: "
                                \o ToString(rules.min_score_threshold)
                                \o " -> " \o ToString(v)))
    ELSE applyLoop(adjustments, k + 1, rules, newRules, appliedChanges)

\* Every proposal inside the window already leaves the rule set as it
\* stands: a further run rewrites the same values.
settled ==
    LET adjustments == recentAdjustments(learning_adjustments, now - ApplyWindow)
        out == applyLoop(adjustments, 1, trading_rules, trading_rules, <<>>)
    IN out.newRules = trading_rules

\* Requests are taken while the log has room; once it holds MaxLogs rows,
\* only while the rule set is settled.
\* trading_rules: .eq('rule_name', 'default').maybeSingle()
apply_read_rules(w) ==
    /\ learner[w].pc = "idle"
    /\ BagCardinality(system_logs) < MaxLogs \/ settled
    /\ learner' = [learner EXCEPT ![w] = [@ EXCEPT !.pc = "fetch",
                                                   !.rules = <<trading_rules>>]]
    /\ UNCHANGED <<exit_response, sim, requests, indicatorVars, analysis, market_conditions, trading_rules, trading_state, now,
                   response, last_price, indicator_cache, signals, trades,
                   trade_exits, mon, simulator_mode, simulated_trades,
                   learning_adjustments, system_logs, learning_response>>

applyLogMessage(n) == "Applied " \o ToString(n) \o " rule adjustments"

\* update({ ...newRules }).eq('rule_name', 'default'), then the log row.  Of
\* the runs that rewrite the rule set as it stands, the log keeps the rows
\* up to MaxLogs.
apply_write(w) ==
    LET rules == learner[w].rules[1]
        out == applyLoop(learner[w].adjustments, 1, rules, rules, <<>>)
        n == Len(out.appliedChanges)
    IN /\ learner[w].pc = "write"
       /\ IF n > 0
          THEN /\ trading_rules' = out.newRules
               /\ system_logs' =
                     IF /\ out.newRules = trading_rules
                        /\ BagCardinality(system_logs) >= MaxLogs
                     THEN system_logs
                     ELSE system_logs (+) SetToBag({applyLogMessage(n)})
          ELSE UNCHANGED <<trading_rules, system_logs>>
       /\ learning_response' =
             learningResponse("apply_adjustments",
                              "Applied " \o ToString(n) \o " adjustments",
                              <<>>, out.appliedChanges)
       /\ learner' = [learner EXCEPT ![w] = idleLearner]
       /\ UNCHANGED <<exit_response, sim, requests, indicatorVars, analysis, market_conditions, trading_state, now, response,
                      last_price, indicator_cache, signals, trades, trade_exits,
                      mon, simulator_mode, simulated_trades, learning_adjustments>>

(***************************************************************************)
(* simulate-trade: requests step by step.  monitor_trades looks at the     *)
(* open simulated trades one by one; execute_signal and                    *)
(* process_new_signals read what exists and insert in a later round trip.  *)
(***************************************************************************)
\* checkEarlyExit; signal is NoRow when the trade has no linked signal
checkEarlyExit(trade, currentPrice, indicators, marketCondition, signal, t) ==
    LET minutesOpen == t - trade.entry_time
        buy == trade.direction = "BUY"
        ind == indicators[1]
        stalled == minutesOpen > 30
                      /\ 1000 * Abs(currentPrice - trade.entry_price) < 3 * trade.entry_price
        rsiTurned == Truthy(ind.rsi) /\ (IF buy THEN ind.rsi > 75 ELSE ind.rsi < 25)
        macdTurned == Truthy(ind.macd_histogram)
                         /\ (IF buy THEN ind.macd_histogram < -1 ELSE ind.macd_histogram > 1)
        trendTurned == Truthy(ind.trend_strength)
                          /\ (IF buy THEN ind.trend_strength < -30
                              ELSE ind.trend_strength > 30)
        volumeDry == Truthy(ind.relative_volume) /\ ind.relative_volume < 50
        vwapLost == Truthy(ind.vwap)
                       /\ (IF buy THEN 1000 * currentPrice < 998 * ind.vwap
                           ELSE 1000 * currentPrice > 1002 * ind.vwap)
        exitScore == (IF stalled THEN 30 ELSE 0) + (IF rsiTurned THEN 25 ELSE 0)
                   + (IF macdTurned THEN 25 ELSE 0) + (IF trendTurned THEN 30 ELSE 0)
                   + (IF volumeDry THEN 25 ELSE 0) + (IF vwapLost THEN 30 ELSE 0)
                   + (IF minutesOpen > 60 THEN 15 ELSE 0)
        reasons ==
              (IF stalled THEN <<"Price stalled">> ELSE <<>>)
           \o (IF rsiTurned THEN <<IF buy THEN "Overbought" ELSE "Oversold">> ELSE <<>>)
           \o (IF macdTurned THEN <<IF buy THEN "MACD bearish" ELSE "MACD bullish">>
               ELSE <<>>)
           \o (IF trendTurned THEN <<"Trend reversed">> ELSE <<>>)
           \o (IF volumeDry THEN <<"Volume dried up">> ELSE <<>>)
           \o (IF vwapLost
               THEN <<IF buy THEN "Lost VWAP support" ELSE "Lost VWAP resistance">>
               ELSE <<>>)
           \o (IF minutesOpen > 60 THEN <<"Trade open too long">> ELSE <<>>)
    IN
    IF /\ signal # NoRow /\ Truthy(signal[1].target_price)
       /\ IF buy THEN currentPrice >= signal[1].target_price
          ELSE trade.direction = "SELL" /\ currentPrice <= signal[1].target_price
    THEN [shouldExit |-> TRUE, reason |-> "TARGET_HIT: Price reached target"]
    ELSE IF /\ signal # NoRow /\ Truthy(signal[1].stoploss_price)
            /\ IF buy THEN currentPrice <= signal[1].stoploss_price
               ELSE trade.direction = "SELL" /\ currentPrice >= signal[1].stoploss_price
    THEN [shouldExit |-> TRUE, reason |-> "STOPLOSS_HIT: Stoploss triggered"]
    ELSE IF marketCondition = "NO_TRADE"
    THEN [shouldExit |-> TRUE, reason |-> "MARKET_CONDITION: Market turned NO_TRADE"]
    ELSE IF indicators = NoRow THEN [shouldExit |-> FALSE, reason |-> ""]
    ELSE IF exitScore >= 50
    THEN [shouldExit |-> TRUE, reason |-> "EARLY_EXIT: " \o join(reasons)]
    ELSE [shouldExit |-> FALSE, reason |-> ""]

\* realised PnL of closing simulated trade row tr at price p
simPnlOf(tr, p) ==
    (p - tr.entry_price) * tr.quantity * (IF tr.direction = "BUY" THEN 1 ELSE -1)

\* closeSimulatedTrade: the updated row
closedSimulatedTrade(row, trade, exitPrice, exitReason, t) ==
    [row EXCEPT !.status = "CLOSED", !.exit_price = exitPrice, !.exit_time = t,
                !.exit_reason = exitReason, !.pnl = simPnlOf(trade, exitPrice)]

\* closeSimulatedTrade: the trade_exits row
simulatedExit(id, trade, exitPrice, exitReason, t) ==
    [trade_id |-> id,
     exit_reason |-> exitReason,
     exit_type |-> IF exitReason = "TARGET_HIT: Price reached target" THEN "TARGET_HIT"
                   ELSE IF exitReason = "STOPLOSS_HIT: Stoploss triggered"
                        THEN "STOPLOSS_HIT"
                   ELSE "EARLY_EXIT",
     market_condition |-> trade.market_condition,
     time_held_minutes |-> t - trade.entry_time,
     pnl_at_exit |-> simPnlOf(trade, exitPrice)]

\* an entry of the results of monitor_trades
monitorResult(tradeId, status, exited, reason) ==
    [tradeId |-> tradeId, status |-> status, exited |-> exited, reason |-> reason]

\* monitor_trades reads the open simulated trades and the regime.
sim_monitor_start(q) ==
    /\ sim[q].pc = "idle"
    /\ LET ids == openIds(simulated_trades, 1) IN
       /\ ids # <<>>
       /\ sim' = [sim EXCEPT ![q] =
            [idleSimulator EXCEPT
               !.pc = "monitor",
               !.marketCondition = getMarketCondition(market_conditions, now),
               !.openTrades = [k \in 1..Len(ids) |->
                                 [id |-> ids[k], row |-> simulated_trades[ids[k]]]],
               !.i = 1]]
    /\ UNCHANGED <<exit_response, requests, indicatorVars, analysis, learningVars,
                   market_conditions, trading_rules, trading_state, now, response,
                   last_price, indicator_cache, signals, trades, trade_exits, mon,
                   simulator_mode, simulated_trades>>

\* One pass of the loop: price, indicators and signal are read, the trade
\* is checked and, when it should exit, closed.
sim_monitor_trade(q) ==
    /\ sim[q].pc = "monitor"
    /\ LET r == sim[q]
           id == r.openTrades[r.i].id
           trade == r.openTrades[r.i].row
           signal == IF trade.signal_id # NullNum THEN <<signals[trade.signal_id]>>
                     ELSE NoRow
           exitCheck == checkEarlyExit(trade, last_price, indicator_cache,
                                       r.marketCondition, signal, now)
           looped(result) ==
              [r EXCEPT !.results = Append(r.results, result),
                        !.i = r.i + 1,
                        !.pc = IF r.i < Len(r.openTrades) THEN "monitor" ELSE "monitored"]
       IN IF ~Truthy(last_price)
          THEN /\ sim' = [sim EXCEPT ![q] =
                            looped(monitorResult(id, "NO_PRICE", FALSE, Null))]
               /\ UNCHANGED <<simulated_trades, trade_exits>>
          ELSE IF exitCheck.shouldExit
          THEN /\ simulated_trades' = [simulated_trades EXCEPT ![id] =
                     closedSimulatedTrade(@, trade, last_price, exitCheck.reason, now)]
               /\ trade_exits' = trade_exits (+) SetToBag({
                     simulatedExit(id, trade, last_price, exitCheck.reason, now)})
               /\ sim' = [sim EXCEPT ![q] =
                            looped(monitorResult(id, Null, TRUE, exitCheck.reason))]
          ELSE /\ sim' = [sim EXCEPT ![q] = looped(monitorResult(id, Null, FALSE, Null))]
               /\ UNCHANGED <<simulated_trades, trade_exits>>
    /\ UNCHANGED <<exit_response, requests, indicatorVars, analysis, learningVars,
                   market_conditions, trading_rules, trading_state, now, response,
                   last_price, indicator_cache, signals, trades, mon, simulator_mode>>

\* After the loop the learning engine is invoked when a trade was closed
\* (a failing invocation is skipped), and the request returns.
sim_monitor_end(q) ==
    /\ sim[q].pc = "monitored"
    /\ IF /\ \E k \in DOMAIN sim[q].results : sim[q].results[k].exited
          /\ BagCardinality(system_logs) < MaxLogs
       THEN runAnalysis
       ELSE UNCHANGED <<learning_adjustments, system_logs, learning_response>>
    /\ sim' = [sim EXCEPT ![q] = idleSimulator]
    /\ UNCHANGED <<exit_response, requests, indicatorVars, analysis, learner,
                   market_conditions, trading_rules, trading_state, now, response,
                   last_price, indicator_cache, signals, trades, trade_exits, mon,
                   simulator_mode, simulated_trades>>

\* execute_signal finds the simulator on, the signal active and no open
\* trade for it.
sim_execute_start(q, signalId) ==
    /\ sim[q].pc = "idle"
    /\ isSimulatorEnabled
    /\ signals[signalId].is_active
    /\ ~existingTrade(simulated_trades, signalId)
    /\ sim' = [sim EXCEPT ![q] = [idleSimulator EXCEPT !.pc = "execute",
                                                       !.signalId = signalId]]
    /\ UNCHANGED <<exit_response, requests, indicatorVars, analysis, learningVars,
                   market_conditions, trading_rules, trading_state, now, response,
                   last_price, indicator_cache, signals, trades, trade_exits, mon,
                   simulator_mode, simulated_trades>>

\* execute_signal reads the regime, inserts the trade and logs it.
sim_execute_create(q) ==
    /\ sim[q].pc = "execute"
    /\ LET signalId == sim[q].signalId
           marketCondition == getMarketCondition(market_conditions, now)
       IN IF marketCondition = "NO_TRADE"
          THEN UNCHANGED <<simulated_trades, system_logs>>
          ELSE /\ Len(simulated_trades) < MaxSimTrades
               /\ simulated_trades' = Append(simulated_trades,
                     createSimulatedTrade(signals[signalId], signalId, marketCondition, now))
               /\ system_logs' = system_logs (+)
                     SetToBag({createdLogMessage(signals[signalId])})
    /\ sim' = [sim EXCEPT ![q] = idleSimulator]
    /\ UNCHANGED <<exit_response, requests, indicatorVars, analysis, learning_adjustments,
                   learner, learning_response,
                   market_conditions, trading_rules, trading_state, now, response,
                   last_price, indicator_cache, signals, trades, trade_exits, mon,
                   simulator_mode>>

\* process_new_signals reads the regime, the active signals and the
\* simulated trades that refer to them.
sim_process_start(q) ==
    /\ sim[q].pc = "idle"
    /\ isSimulatorEnabled
    /\ getMarketCondition(market_conditions, now) # "NO_TRADE"
    /\ newSignals(now) # {}
    /\ sim' = [sim EXCEPT ![q] =
          [idleSimulator EXCEPT !.pc = "process",
                                !.marketCondition = getMarketCondition(market_conditions, now),
                                !.newSignals = newSignals(now)]]
    /\ UNCHANGED <<exit_response, requests, indicatorVars, analysis, learningVars,
                   market_conditions, trading_rules, trading_state, now, response,
                   last_price, indicator_cache, signals, trades, trade_exits, mon,
                   simulator_mode, simulated_trades>>

\* process_new_signals inserts a trade for each signal it found new and
\* logs their number.
sim_process_create(q) ==
    /\ sim[q].pc = "process"
    /\ Len(simulated_trades) + Cardinality(sim[q].newSignals) <= MaxSimTrades
    /\ simulated_trades' = simulated_trades \o
          createdFor(sim[q].newSignals, 1, sim[q].marketCondition, now)
    /\ system_logs' = system_logs (+)
          SetToBag({autoCreatedLogMessage(Cardinality(sim[q].newSignals))})
    /\ sim' = [sim EXCEPT ![q] = idleSimulator]
    /\ UNCHANGED <<exit_response, requests, indicatorVars, analysis, learning_adjustments,
                   learner, learning_response,
                   market_conditions, trading_rules, trading_state, now, response,
                   last_price, indicator_cache, signals, trades, trade_exits, mon,
                   simulator_mode>>

(***************************************************************************)
(* Collaborators: market-conditions, update-market-data, the clock         *)
(***************************************************************************)
RegimeValidMinutes == 5

\* market-conditions stores the classification, valid for 5 minutes.
classify(condition) ==
    /\ market_conditions' =
          <<[condition |-> condition, expires_at |-> now + RegimeValidMinutes]>>
    /\ UNCHANGED <<exit_response, sim, requests, indicatorVars, analysis, learningVars, trading_rules, trading_state, now, response, last_price,
                   indicator_cache, signals, trades, trade_exits, mon,
                   simulator_mode, simulated_trades>>

Prices == {95, 100, 110}

noIndicators ==
    [rsi |-> NullNum, macd_histogram |-> NullNum, trend_strength |-> NullNum,
     relative_volume |-> NullNum, vwap |-> NullNum, pattern_detected |-> Null,
     close |-> NullNum, atr |-> NullNum]

\* Indicator rows: none computed, a quiet market, a market turning down on
\* thin volume.
IndicatorRows ==
    { noIndicators,
      [rsi |-> 55, macd_histogram |-> 2, trend_strength |-> 10,
       relative_volume |-> 100, vwap |-> 100, pattern_detected |-> Null,
       close |-> 100, atr |-> 5],
      [rsi |-> 80, macd_histogram |-> -5, trend_strength |-> -40,
       relative_volume |-> 40, vwap |-> 105, pattern_detected |-> Null,
       close |-> 100, atr |-> 12] }

\* Indicator rows by the raw score they earn: 60 (RSI 42), 80 (RSI 35 on
\* heavy volume) and 100 (the same in a full trend with a hammer).  Raw
\* scores whose products lie a hair under a .5 tie in IEEE-754 (75 * 0.6 *
\* 0.7, 85 * 0.7) are not drawn.
fairIndicators == [noIndicators EXCEPT !.rsi = 42]

goodIndicators == [noIndicators EXCEPT !.rsi = 35, !.relative_volume = 200]

strongIndicators ==
    [noIndicators EXCEPT !.rsi = 35, !.relative_volume = 200,
                         !.trend_strength = 100, !.pattern_detected = "HAMMER"]

ScoredIndicatorRows ==
    {noIndicators, fairIndicators, goodIndicators, strongIndicators}

\* update-market-data upserts stocks.last_price and the indicator_cache row.
update_market_data(price, indicators) ==
    /\ last_price' = price
    /\ indicator_cache' = <<indicators>>
    /\ UNCHANGED <<exit_response, sim, requests, indicatorVars, analysis, learningVars, market_conditions, trading_rules, trading_state, now, response,
                   signals, trades, trade_exits, mon,
                   simulator_mode, simulated_trades>>

(***************************************************************************)
(* indicators: the indicator engine.  A candle is a record of open, high,  *)
(* low, close (rupees) and volume; data[1] is the first candle supplied.   *)
(* VWAP, RSI, relative volume and trend strength come back in hundredths   *)
(* (two decimals kept), ATR and the MACD values in ten-thousandths.  The   *)
(* running averages are rounded at each step: Wilder smoothing is carried  *)
(* in millionths, the EMA in ten-thousandths.                              *)
(***************************************************************************)
\* [...data].reverse()
reverse(data) == [k \in 1..Len(data) |-> data[Len(data) + 1 - k]]

RECURSIVE sum(_)
sum(xs) == IF xs = <<>> THEN 0 ELSE Head(xs) + sum(Tail(xs))

Max(a, b) == IF a > b THEN a ELSE b

Min(a, b) == IF a < b THEN a ELSE b

\* Math.round((cumulativeTPV / cumulativeVolume) * 100) / 100
calculateVWAP(data) ==
    IF Len(data) = 0 THEN NullNum
    ELSE LET cumulativeTPV3 == sum([k \in 1..Len(data) |->
                                      (data[k].high + data[k].low + data[k].close)
                                         * data[k].volume])
             cumulativeVolume == sum([k \in 1..Len(data) |-> data[k].volume])
         IN IF cumulativeVolume = 0 THEN NullNum
            ELSE MathRound(100 * cumulativeTPV3, 3 * cumulativeVolume)

\* avg = (avg * (period - 1) + current) / period over the values from k on
RECURSIVE wilder(_, _, _)
wilder(avg, values, k) ==
    IF k > Len(values) THEN avg
    ELSE wilder(MathRound(avg * 13 + values[k] * 1000000, 14), values, k + 1)

\* calculateRSI(data, 14)
calculateRSI(data) ==
    IF Len(data) < 14 + 1 THEN NullNum
    ELSE LET sortedData == reverse(data)
             change == [i \in 1..(Len(data) - 1) |->
                          sortedData[i + 1].close - sortedData[i].close]
             gain == [i \in 1..(Len(data) - 1) |-> Max(change[i], 0)]
             loss == [i \in 1..(Len(data) - 1) |-> Max(0 - change[i], 0)]
             avgGain == wilder(MathRound(sum(SubSeq(gain, 1, 14)) * 1000000, 14), gain, 15)
             avgLoss == wilder(MathRound(sum(SubSeq(loss, 1, 14)) * 1000000, 14), loss, 15)
             \* 100 - 100 / (1 + rs) = 100 * avgGain / (avgGain + avgLoss); the
             \* whole percents first, then the two decimals
             percents == (100 * avgGain) \div (avgGain + avgLoss)
             rest == (100 * avgGain) % (avgGain + avgLoss)
         IN IF avgLoss = 0 THEN 100 * 100
            ELSE 100 * percents + MathRound(100 * rest, avgGain + avgLoss)

\* the loop of calculateEMA from index i on
RECURSIVE emaFrom(_, _, _, _)
emaFrom(ema, prices, period, i) ==
    IF i > Len(prices) THEN ema
    ELSE emaFrom(Append(ema, MathRound((prices[i] - ema[Len(ema)]) * 2, period + 1)
                               + ema[Len(ema)]),
                 prices, period, i + 1)

calculateEMA(prices, period) ==
    LET first == Min(period, Len(prices)) IN
    emaFrom(<<MathRound(sum(SubSeq(prices, 1, first)), first)>>, prices, period, period + 1)

noMACD == [macd |-> NullNum, signal |-> NullNum, histogram |-> NullNum]

calculateMACD(data) ==
    IF Len(data) < 26 THEN noMACD
    ELSE LET closes == [k \in 1..Len(data) |-> reverse(data)[k].close * 10000]
             ema12 == calculateEMA(closes, 12)
             ema26 == calculateEMA(closes, 26)
             startIdx == Len(ema26) - Len(ema12)
             macdLine == [i \in 1..Len(ema26) |-> ema12[i - startIdx] - ema26[i]]
             signalLine == calculateEMA(macdLine, 9)
             latestMACD == macdLine[Len(macdLine)]
             latestSignal == signalLine[Len(signalLine)]
         IN IF Len(macdLine) < 9 THEN noMACD
            ELSE [macd |-> latestMACD, signal |-> latestSignal,
                  histogram |-> latestMACD - latestSignal]

\* calculateATR(data, 14)
calculateATR(data) ==
    IF Len(data) < 14 + 1 THEN NullNum
    ELSE LET sortedData == reverse(data)
             trueRanges == [i \in 1..(Len(data) - 1) |->
                 Max(sortedData[i + 1].high - sortedData[i + 1].low,
                     Max(Abs(sortedData[i + 1].high - sortedData[i].close),
                         Abs(sortedData[i + 1].low - sortedData[i].close)))]
         IN IF Len(trueRanges) < 14 THEN NullNum
            ELSE MathRound(wilder(MathRound(sum(SubSeq(trueRanges, 1, 14)) * 1000000, 14),
                                  trueRanges, 15), 100)

\* calculateRelativeVolume(data, 20): data.slice(1, 21) holds the (up to) 20
\* candles after the first; their sum is divided by 20.
calculateRelativeVolume(data) ==
    IF Len(data) < 20 THEN NullNum
    ELSE LET currentVolume == data[1].volume
             total == sum([k \in 1..(Min(Len(data), 21) - 1) |-> data[k + 1].volume])
         IN IF total = 0 THEN NullNum
            ELSE MathRound(100 * currentVolume * 20, total)

\* strength = min(100, |momentum * 2 + consistency * 0.5|), signed by the side
\* of the 20-period average the last chronological close lies on
calculateTrendStrength(data) ==
    IF Len(data) < 20 THEN NullNum
    ELSE LET n == Len(data)
             closes == [k \in 1..n |-> reverse(data)[k].close]
             sum20 == sum(SubSeq(closes, n - 19, n))
             currentPrice == closes[n]
             earlier == closes[n - 9]
             bullishCount == Cardinality({i \in (n - 9)..n : data[i].close > data[i].open})
             trendDirection == IF 20 * currentPrice > sum20 THEN 1 ELSE 0 - 1
             strength == Min(100 * earlier,
                             200 * Abs(currentPrice - earlier) + 5 * bullishCount * earlier)
         IN MathRound(trendDirection * 100 * strength, earlier)

detectCandlePattern(data) ==
    IF Len(data) < 3 THEN Null
    ELSE LET current == data[1]
             previous == data[2]
             bodySize == Abs(current.close - current.open)
             upperWick == current.high - Max(current.open, current.close)
             lowerWick == Min(current.open, current.close) - current.low
             range == current.high - current.low
         IN IF /\ lowerWick >= bodySize * 2
               /\ 2 * upperWick <= bodySize
               /\ current.close > current.open
            THEN "HAMMER"
            ELSE IF /\ upperWick >= bodySize * 2
                    /\ 2 * lowerWick <= bodySize
                    /\ current.close > current.open
            THEN "INVERTED_HAMMER"
            ELSE IF /\ upperWick >= bodySize * 2
                    /\ 2 * lowerWick <= bodySize
                    /\ current.close < current.open
            THEN "SHOOTING_STAR"
            ELSE IF /\ previous.close < previous.open
                    /\ current.close > current.open
                    /\ current.open < previous.close
                    /\ current.close > previous.open
            THEN "BULLISH_ENGULFING"
            ELSE IF /\ previous.close > previous.open
                    /\ current.close < current.open
                    /\ current.open > previous.close
                    /\ current.close < previous.open
            THEN "BEARISH_ENGULFING"
            \* bodySize / range < 0.1; 0 / 0 is NaN, which is not below 0.1
            ELSE IF range # 0 /\ 10 * bodySize < range
            THEN "DOJI"
            ELSE Null

computeAllIndicators(data) ==
    LET macdResult == calculateMACD(data) IN
    [vwap |-> calculateVWAP(data),
     rsi |-> calculateRSI(data),
     macd |-> macdResult.macd,
     macdSignal |-> macdResult.signal,
     macdHistogram |-> macdResult.histogram,
     atr |-> calculateATR(data),
     relativeVolume |-> calculateRelativeVolume(data),
     trendStrength |-> calculateTrendStrength(data),
     patternDetected |-> detectCandlePattern(data)]

noSnapshot == computeAllIndicators(<<>>)

indicatorsResponse(error, indicators, dataPoints) ==
    [error |-> error, indicators |-> indicators, dataPoints |-> dataPoints]

noIndicatorsResponse == indicatorsResponse(Null, noSnapshot, 0)

\* The handler, for a request that names a symbol: without candles in the
\* request it looks for cached ones (there are none) and answers 400;
\* otherwise it computes the snapshot, upserts it under the symbol (the
\* columns written are the snapshot answered), logs and answers.
compute_indicators ==
    IF candles = <<>>
    THEN /\ indicators_response' =
              indicatorsResponse("No data available. Fetch data first using alpha-vantage endpoint.",
                                 noSnapshot, 0)
         /\ UNCHANGED system_logs
         /\ UNCHANGED <<exit_response, sim, requests, candles, analysis, market_conditions, learning_adjustments, learner,
                        learning_response, trading_rules, trading_state, now, response,
                        last_price, indicator_cache, signals, trades, trade_exits, mon,
                        simulator_mode, simulated_trades>>
    ELSE /\ BagCardinality(system_logs) < MaxLogs
         /\ indicators_response' =
              indicatorsResponse(Null, computeAllIndicators(candles), Len(candles))
         /\ system_logs' = system_logs (+) SetToBag({"Computed indicators for symbol"})
         /\ UNCHANGED <<exit_response, sim, requests, candles, analysis, market_conditions, learning_adjustments, learner,
                        learning_response, trading_rules, trading_state, now, response,
                        last_price, indicator_cache, signals, trades, trade_exits, mon,
                        simulator_mode, simulated_trades>>

(***************************************************************************)
(* market-conditions: the classifier.  An average is kept as its total and *)
(* the count it is divided by; a confidence as a fraction until            *)
(* Math.round.  ATR is in rupees.                                          *)
(***************************************************************************)
\* getTimeOfDay.  istHour = (getUTCHours() + 5.5) % 24 is kept in quarter
\* hours: ist4 = 4 * istHour.
getTimeOfDay(h) ==
    LET ist4 == (4 * h + 22) % 96 IN
    IF ist4 < 37 \/ ist4 >= 62 THEN [period |-> "MARKET_CLOSED", isOptimal |-> FALSE]
    ELSE IF ist4 >= 37 /\ ist4 < 40 THEN [period |-> "OPENING_VOLATILITY", isOptimal |-> FALSE]
    ELSE IF ist4 >= 40 /\ ist4 < 46 THEN [period |-> "MORNING_SESSION", isOptimal |-> TRUE]
    ELSE IF ist4 >= 46 /\ ist4 < 56 THEN [period |-> "MIDDAY_LULL", isOptimal |-> FALSE]
    ELSE IF ist4 >= 56 /\ ist4 < 60 THEN [period |-> "AFTERNOON_SESSION", isOptimal |-> TRUE]
    ELSE [period |-> "CLOSING_HOUR", isOptimal |-> FALSE]

\* analyzeVolatility(total / count, 1000): volatilityPercent = atr / 10
analyzeVolatility(total, count) ==
    IF total = 0 THEN "UNKNOWN"
    ELSE IF total > 30 * count THEN "EXTREME"
    ELSE IF total > 20 * count THEN "HIGH"
    ELSE IF total > 10 * count THEN "NORMAL"
    ELSE "LOW"

\* analyzeVolume(total / count), relative volume in hundredths
analyzeVolume(total, count) ==
    IF total = 0 THEN [behavior |-> "UNKNOWN", isHealthy |-> FALSE]
    ELSE IF total > 200 * count THEN [behavior |-> "SURGE", isHealthy |-> TRUE]
    ELSE IF total > 120 * count THEN [behavior |-> "ABOVE_AVERAGE", isHealthy |-> TRUE]
    ELSE IF total > 80 * count THEN [behavior |-> "NORMAL", isHealthy |-> TRUE]
    ELSE IF total > 50 * count THEN [behavior |-> "BELOW_AVERAGE", isHealthy |-> FALSE]
    ELSE [behavior |-> "DRY", isHealthy |-> FALSE]

\* analyzeTrend(total / count)
analyzeTrend(total, count) ==
    IF total = 0 THEN [direction |-> "UNKNOWN", isTrending |-> FALSE]
    ELSE IF total > 50 * count THEN [direction |-> "STRONG_BULLISH", isTrending |-> TRUE]
    ELSE IF total > 20 * count THEN [direction |-> "BULLISH", isTrending |-> TRUE]
    ELSE IF total < (0 - 50) * count THEN [direction |-> "STRONG_BEARISH", isTrending |-> TRUE]
    ELSE IF total < (0 - 20) * count THEN [direction |-> "BEARISH", isTrending |-> TRUE]
    ELSE [direction |-> "SIDEWAYS", isTrending |-> FALSE]

\* the loop's totals: a null value adds nothing
RECURSIVE totalOf(_, _, _)
totalOf(indicators, column, k) ==
    IF k > Len(indicators) THEN 0
    ELSE (IF indicators[k][column] # NullNum THEN indicators[k][column] ELSE 0)
         + totalOf(indicators, column, k + 1)

marketAnalysis(condition, indexDirection, volumeBehavior, timeOfDay, confidence) ==
    [condition |-> condition, indexDirection |-> indexDirection,
     volumeBehavior |-> volumeBehavior, timeOfDay |-> timeOfDay,
     confidence |-> confidence]

\* count++ runs for every row, so count is the number of rows.
classifyMarket(indicators, timeInfo) ==
    LET count == Len(indicators)
        totalTrend == totalOf(indicators, "trend_strength", 1)
        totalVolatility == totalOf(indicators, "atr", 1)
        totalVolume == totalOf(indicators, "relative_volume", 1)
        trendAnalysis == analyzeTrend(totalTrend, count)
        volatilityCategory == analyzeVolatility(totalVolatility, count)
        volumeAnalysis == analyzeVolume(totalVolume, count)
        \* 60 + Math.abs(avgTrend) / 2, over 2 * count
        trendingConfidence ==
            IF 120 * count + Abs(totalTrend) < 180 * count
            THEN 120 * count + Abs(totalTrend) ELSE 180 * count
        condition ==
            IF volatilityCategory = "EXTREME" THEN "HIGH_VOLATILITY"
            ELSE IF ~timeInfo.isOptimal /\ volumeAnalysis.behavior = "DRY" THEN "NO_TRADE"
            ELSE IF trendAnalysis.isTrending /\ volumeAnalysis.isHealthy THEN "TRENDING"
            ELSE "RANGE"
        \* confidence, over 2 * count
        confidence ==
            IF volatilityCategory = "EXTREME" THEN 85 * 2 * count
            ELSE IF ~timeInfo.isOptimal /\ volumeAnalysis.behavior = "DRY" THEN 75 * 2 * count
            ELSE IF trendAnalysis.isTrending /\ volumeAnalysis.isHealthy THEN trendingConfidence
            ELSE IF ~trendAnalysis.isTrending THEN 70 * 2 * count
            ELSE 50 * 2 * count
        cautious == timeInfo.period \in {"OPENING_VOLATILITY", "CLOSING_HOUR"}
    IN
    IF timeInfo.period = "MARKET_CLOSED"
    THEN marketAnalysis("NO_TRADE", "CLOSED", "NONE", timeInfo.period, 100)
    ELSE IF count = 0
    THEN marketAnalysis("NO_TRADE", "UNKNOWN", "UNKNOWN", timeInfo.period, 50)
    ELSE marketAnalysis(condition, trendAnalysis.direction, volumeAnalysis.behavior,
                        timeInfo.period,
                        IF cautious THEN MathRound(8 * confidence, 10 * 2 * count)
                        ELSE MathRound(confidence, 2 * count))

noAnalysis == marketAnalysis(Null, Null, Null, Null, NullNum)

classificationLogMessage(condition) == "Market classified as " \o condition

\* The handler: reads the clock and the indicator_cache rows, classifies,
\* inserts the market_conditions row (of which only the columns that are
\* read again are kept), logs and answers.
classify_market ==
    LET a == classifyMarket(indicator_cache, getTimeOfDay(getUTCHours(now))) IN
    /\ BagCardinality(system_logs) < MaxLogs
    /\ market_conditions' =
          <<[condition |-> a.condition, expires_at |-> now + RegimeValidMinutes]>>
    /\ system_logs' = system_logs (+) SetToBag({classificationLogMessage(a.condition)})
    /\ analysis' = a
    /\ UNCHANGED <<exit_response, sim, requests, indicatorVars, learning_adjustments, learner, learning_response,
                   trading_rules, trading_state, now, response, last_price,
                   indicator_cache, signals,
                   trades, trade_exits, mon, simulator_mode, simulated_trades>>

StartMinute == 300

TickMinutes == 31

MaxTicks == 2

Horizon == StartMinute + MinutesPerDay + MaxTicks * TickMinutes

\* Time passes: some minutes, or a day.
Tick(d, limit) ==
    /\ now + d <= limit
    /\ now' = now + d
    /\ UNCHANGED <<exit_response, sim, requests, indicatorVars, analysis, learningVars, market_conditions, trading_rules, trading_state, response,
                   last_price, indicator_cache, signals, trades, trade_exits, mon,
                   simulator_mode, simulated_trades>>

(***************************************************************************)
(* Initial state: the migrations' default rule set, two signals and two    *)
(* open trades, today's trading_state row present.                         *)
(***************************************************************************)
defaultRules ==
    [market_multiplier |-> 100, risk_multiplier |-> 100, time_multiplier |-> 100,
     min_score_threshold |-> 60, max_daily_trades |-> 10,
     max_daily_loss |-> 5000, consecutive_loss_limit |-> 3]

noResponse == errorResponse(Null, Null)

noLearningResponse == learningResponse(Null, Null, <<>>, <<>>)

signalRow(type, entry, target, stoploss, t) ==
    [signal_type |-> type, entry_price |-> entry, target_price |-> target,
     stoploss_price |-> stoploss, confidence |-> 80, is_active |-> TRUE,
     expires_at |-> t, raw_score |-> 0, final_score |-> 0,
     market_condition |-> Null, rejection_reason |-> Null, is_tradable |-> TRUE]

openTrade(type, entry, quantity, signalId, t) ==
    [status |-> "OPEN", trade_type |-> type, entry_price |-> entry,
     quantity |-> quantity, opened_at |-> t, signal_id |-> signalId,
     exit_price |-> NullNum, closed_at |-> NullNum, pnl |-> NullNum,
     exit_reason |-> Null, time_held_minutes |-> NullNum]

Init ==
    /\ market_conditions = NoRow
    /\ trading_rules = defaultRules
    /\ now = StartMinute
    /\ trading_state = <<newTradingState(StartMinute)>>
    /\ response = noResponse
    /\ last_price = 100
    /\ indicator_cache = NoRow
    /\ signals = << signalRow("BUY", 100, 110, 95, Horizon),
                    signalRow("SELL", 100, 95, 110, Horizon) >>
    /\ trades = << openTrade("BUY", 100, 1000, 1, StartMinute),
                   openTrade("SELL", 100, 1, 2, StartMinute) >>
    /\ trade_exits = EmptyBag
    /\ mon = [m \in Monitors |-> idleMonitor]
    /\ simulator_mode \in {"SIGNAL_ONLY", "SIMULATOR"}
    /\ simulated_trades = <<>>
    /\ learning_adjustments = <<>>
    /\ system_logs = EmptyBag
    /\ learner = [w \in Learners |-> idleLearner]
    /\ learning_response = noLearningResponse
    /\ analysis = noAnalysis
    /\ candles = <<>>
    /\ indicators_response = noIndicatorsResponse
    /\ requests = [p \in Requesters |-> idleRequest]
    /\ exit_response = noExitResponse
    /\ sim = [q \in Simulators |-> idleSimulator]

\* One monitor_all request at a time; scoring, the simulator and the
\* collaborators run between its steps.
\* the quotes of the trading day: one below the entry price, one above
DayPrices == {95, 110}

Next ==
    \/ \E signalId \in {NullNum, 2} : score_signal(signalId)
    \/ check_entry
    \/ mon_start(1)
    \/ mon_eval(1)
    \/ mon_close(1)
    \/ mon_read_state(1)
    \/ mon_write_state(1)
    \/ \E signalId \in DOMAIN signals : execute_signal(signalId)
    \/ process_new_signals
    \/ classify("NO_TRADE")
    \/ \E price \in DayPrices, indicators \in {noIndicators, strongIndicators} :
          update_market_data(price, indicators)

Spec == Init /\ [][Next]_vars

\* Concurrent monitor_all requests against a moving market.
NextMon ==
    \/ \E m \in Monitors :
          \/ mon_start(m)
          \/ mon_eval(m)
          \/ mon_close(m)
          \/ mon_read_state(m)
          \/ mon_write_state(m)
    \/ \E price \in Prices : update_market_data(price, noIndicators)

SpecMon == Init /\ [][NextMon]_vars

(***************************************************************************)
(* The scorer alone, over the rows it can find: any regime row (fresh or   *)
(* expired) or none, any state of the day or none, the default rule set    *)
(* or one with the score threshold switched off, at four times of the day  *)
(* (08:30, 09:30, 10:30 and 15:30 IST).                                    *)
(***************************************************************************)
ScoreClock == {180, 240, StartMinute, 600}

RegimeRows ==
    {NoRow, <<[condition |-> "NO_TRADE", expires_at |-> 0]>>}
       \cup {<<[condition |-> c, expires_at |-> Horizon]>> : c \in Conditions}

StateRows(t) ==
    {NoRow} \cup {<<st>> : st \in [date : {today(t)},
                                    trades_today : {0, defaultRules.max_daily_trades},
                                    daily_pnl : {0, -2000, -defaultRules.max_daily_loss},
                                    consecutive_losses : {0, 2, defaultRules.consecutive_loss_limit},
                                    auto_mode_active : BOOLEAN,
                                    stop_reason : {Null, "Manual stop"}]}

InitScore ==
    /\ now \in ScoreClock
    /\ market_conditions \in RegimeRows
    /\ trading_state \in StateRows(now)
    /\ trading_rules \in {defaultRules, [defaultRules EXCEPT !.min_score_threshold = 0]}
    /\ indicator_cache \in {NoRow} \cup {<<row>> : row \in ScoredIndicatorRows}
    /\ response = noResponse
    /\ last_price = 100
    /\ signals = << signalRow("BUY", 100, 110, 95, Horizon),
                    signalRow("SELL", 100, 95, 110, Horizon) >>
    /\ trades = <<>>
    /\ trade_exits = EmptyBag
    /\ mon = [m \in Monitors |-> idleMonitor]
    /\ simulator_mode = "SIGNAL_ONLY"
    /\ simulated_trades = <<>>
    /\ learning_adjustments = <<>>
    /\ system_logs = EmptyBag
    /\ learner = [w \in Learners |-> idleLearner]
    /\ learning_response = noLearningResponse
    /\ analysis = noAnalysis
    /\ candles = <<>>
    /\ indicators_response = noIndicatorsResponse
    /\ requests = [p \in Requesters |-> idleRequest]
    /\ exit_response = noExitResponse
    /\ sim = [q \in Simulators |-> idleSimulator]

NextScore ==
    \/ \E signalId \in {NullNum, 1} : score_signal(signalId)
    \/ check_entry

SpecScore == InitScore /\ [][NextScore]_vars

(***************************************************************************)
(* The exit monitor alone, over what it can read: one open trade, long or  *)
(* short, 0, 40 or 70 minutes old, with or without target and stop-loss,   *)
(* any fresh regime or none, any indicator row or none, any price or none. *)
(***************************************************************************)
ExitClock == {StartMinute, StartMinute + 40, StartMinute + 70}

FreshRegimeRows ==
    {NoRow} \cup {<<[condition |-> c, expires_at |-> Horizon]>> : c \in Conditions}

\* a signal with both levels, with none, or the trade's direction reversed
ExitSignals ==
    { signalRow("BUY", 100, 110, 95, Horizon),
      signalRow("BUY", 100, NullNum, NullNum, Horizon),
      signalRow("SELL", 100, 95, 110, Horizon) }

InitExit ==
    /\ now \in ExitClock
    /\ market_conditions \in FreshRegimeRows
    /\ trading_state = <<newTradingState(StartMinute)>>
    /\ trading_rules = defaultRules
    /\ indicator_cache \in {NoRow} \cup {<<row>> : row \in IndicatorRows}
    /\ response = noResponse
    /\ last_price \in Prices \cup {NullNum}
    /\ \E s \in ExitSignals :
          /\ signals = <<s>>
          /\ trades = <<openTrade(s.signal_type, 100, 10, 1, StartMinute)>>
    /\ trade_exits = EmptyBag
    /\ mon = [m \in Monitors |-> idleMonitor]
    /\ simulator_mode = "SIGNAL_ONLY"
    /\ simulated_trades = <<>>
    /\ learning_adjustments = <<>>
    /\ system_logs = EmptyBag
    /\ learner = [w \in Learners |-> idleLearner]
    /\ learning_response = noLearningResponse
    /\ analysis = noAnalysis
    /\ candles = <<>>
    /\ indicators_response = noIndicatorsResponse
    /\ requests = [p \in Requesters |-> idleRequest]
    /\ exit_response = noExitResponse
    /\ sim = [q \in Simulators |-> idleSimulator]

NextExit ==
    \/ \E tradeId \in 1..(Len(trades) + 1) : check_single(tradeId)
    \/ mon_start(1)
    \/ mon_eval(1)
    \/ mon_close(1)
    \/ mon_read_state(1)
    \/ mon_write_state(1)

SpecExit == InitExit /\ [][NextExit]_vars

(***************************************************************************)
(* The learning engine alone: concurrent apply_adjustments requests over   *)
(* a table of proposals that the clock moves towards the end of their 24   *)
(* hours, and analyze over a week's closed trades.                         *)
(***************************************************************************)
closedTrade(signalId, pnl, t) ==
    [openTrade("BUY", 100, 1, signalId, t - 60) EXCEPT
        !.status = "CLOSED", !.exit_price = 100 + pnl, !.closed_at = t,
        !.pnl = pnl, !.exit_reason = "Monitored exit", !.time_held_minutes = 60]

\* Nothing closed; one loss; five losses in a trend; a win on each signal;
\* five wins in a range.
TradeHistories ==
    { <<>>,
      <<closedTrade(1, -5, StartMinute)>>,
      [i \in 1..MinSampleSize |-> closedTrade(1, -5, StartMinute)],
      <<closedTrade(1, 10, StartMinute), closedTrade(2, 5, StartMinute)>>,
      [i \in 1..MinSampleSize |-> closedTrade(2, 5, StartMinute)] }

adjustment(condition_type, original_value, adjusted_value, last_updated) ==
    [condition_type |-> condition_type, original_value |-> original_value,
     adjusted_value |-> adjusted_value, last_updated |-> last_updated]

\* Proposals as found in the table: none; a threshold proposal, fresh, about
\* to leave the window, or older than 24 hours; a regime-multiplier
\* proposal, alone or next to a threshold proposal; a lower threshold.
AdjustmentTables ==
    LET fresh == StartMinute
        leaving == StartMinute - ApplyWindow + TickMinutes
        old == StartMinute - ApplyWindow - 1
    IN { <<>>,
         <<adjustment("min_score_threshold", 60, 70, fresh)>>,
         <<adjustment("min_score_threshold", 60, 70, leaving)>>,
         <<adjustment("min_score_threshold", 60, 70, old)>>,
         <<adjustment("market_multiplier_trending", 120, 100, fresh)>>,
         <<adjustment("min_score_threshold", 60, 70, old),
           adjustment("market_multiplier_trending", 120, 100, fresh)>>,
         <<adjustment("min_score_threshold", 60, 55, fresh)>> }

InitLearn ==
    /\ now = StartMinute
    /\ market_conditions = NoRow
    /\ trading_state = <<newTradingState(StartMinute)>>
    /\ trading_rules = defaultRules
    /\ indicator_cache = NoRow
    /\ response = noResponse
    /\ last_price = 100
    /\ signals = << [signalRow("BUY", 100, 110, 95, Horizon) EXCEPT
                        !.raw_score = 80, !.final_score = 65,
                        !.market_condition = "TRENDING"],
                    [signalRow("SELL", 100, 95, 110, Horizon) EXCEPT
                        !.raw_score = 100, !.final_score = 85,
                        !.market_condition = "RANGE"] >>
    /\ trades \in TradeHistories
    /\ learning_adjustments \in IF trades = <<>> THEN AdjustmentTables ELSE {<<>>}
    /\ trade_exits = EmptyBag
    /\ mon = [m \in Monitors |-> idleMonitor]
    /\ simulator_mode = "SIGNAL_ONLY"
    /\ simulated_trades = <<>>
    /\ system_logs = EmptyBag
    /\ learner = [w \in Learners |-> idleLearner]
    /\ learning_response = noLearningResponse
    /\ analysis = noAnalysis
    /\ candles = <<>>
    /\ indicators_response = noIndicatorsResponse
    /\ requests = [p \in Requesters |-> idleRequest]
    /\ exit_response = noExitResponse
    /\ sim = [q \in Simulators |-> idleSimulator]

NextLearn ==
    \/ analyze
    \/ \E w \in Learners :
          \/ apply_read_rules(w)
          \/ apply_fetch(w)
          \/ apply_write(w)
    \/ Tick(TickMinutes, StartMinute + MaxTicks * TickMinutes)

SpecLearn == InitLearn /\ [][NextLearn]_vars

(***************************************************************************)
(* The classifier and the scorer at every minute of one day: a trending    *)
(* market on heavy volume, no losses yet.                                  *)
(***************************************************************************)
InitClock ==
    /\ now \in 0..(MinutesPerDay - 1)
    /\ market_conditions = NoRow
    /\ trading_state = <<newTradingState(0)>>
    /\ trading_rules = defaultRules
    /\ indicator_cache = <<strongIndicators>>
    /\ response = noResponse
    /\ last_price = 100
    /\ signals = <<signalRow("BUY", 100, 110, 95, Horizon)>>
    /\ trades = <<>>
    /\ trade_exits = EmptyBag
    /\ mon = [m \in Monitors |-> idleMonitor]
    /\ simulator_mode = "SIGNAL_ONLY"
    /\ simulated_trades = <<>>
    /\ learning_adjustments = <<>>
    /\ system_logs = EmptyBag
    /\ learner = [w \in Learners |-> idleLearner]
    /\ learning_response = noLearningResponse
    /\ analysis = noAnalysis
    /\ candles = <<>>
    /\ indicators_response = noIndicatorsResponse
    /\ requests = [p \in Requesters |-> idleRequest]
    /\ exit_response = noExitResponse
    /\ sim = [q \in Simulators |-> idleSimulator]

NextClock ==
    \/ classify_market
    \/ score_signal(NullNum)

SpecClock == InitClock /\ [][NextClock]_vars

(***************************************************************************)
(* The classifier alone, over up to MaxSnapshots indicator rows and at one *)
(* time in each session the clock can tell: 08:30, 09:30, 10:30, 12:00 and *)
(* 14:30 IST.                                                              *)
(***************************************************************************)
MaxSnapshots == 2

ClassifyClock == {180, 240, StartMinute, 390, 540}

\* Rows without any value, of a quiet market, of a market turning down on
\* thin volume, of a full trend whose ATR is missing, of a wild market.
SnapshotRows ==
    IndicatorRows \cup
       { strongIndicators,
         [noIndicators EXCEPT !.trend_strength = 60, !.relative_volume = 100,
                              !.atr = 40] }

SnapshotLists == UNION {[1..n -> SnapshotRows] : n \in 0..MaxSnapshots}

InitClassify ==
    /\ now \in ClassifyClock
    /\ market_conditions = NoRow
    /\ trading_state = NoRow
    /\ trading_rules = defaultRules
    /\ indicator_cache \in SnapshotLists
    /\ response = noResponse
    /\ last_price = 100
    /\ signals = <<>>
    /\ trades = <<>>
    /\ trade_exits = EmptyBag
    /\ mon = [m \in Monitors |-> idleMonitor]
    /\ simulator_mode = "SIGNAL_ONLY"
    /\ simulated_trades = <<>>
    /\ learning_adjustments = <<>>
    /\ system_logs = EmptyBag
    /\ learner = [w \in Learners |-> idleLearner]
    /\ learning_response = noLearningResponse
    /\ analysis = noAnalysis
    /\ candles = <<>>
    /\ indicators_response = noIndicatorsResponse
    /\ requests = [p \in Requesters |-> idleRequest]
    /\ exit_response = noExitResponse
    /\ sim = [q \in Simulators |-> idleSimulator]

NextClassify == classify_market

SpecClassify == InitClassify /\ [][NextClassify]_vars

(***************************************************************************)
(* The readers of the regime against a clock that outruns its validity:    *)
(* the classifier runs now and then, time passes five minutes at a step,   *)
(* and the scorer, one exit monitor and the simulator look the regime up.  *)
(***************************************************************************)
MaxRegimeTicks == 2

InitRegime ==
    /\ now = StartMinute
    /\ market_conditions = NoRow
    /\ trading_state = <<newTradingState(StartMinute)>>
    /\ trading_rules = defaultRules
    /\ indicator_cache = NoRow
    /\ response = noResponse
    /\ last_price = 100
    /\ signals = << signalRow("BUY", 100, 110, 95, Horizon),
                    signalRow("SELL", 100, 95, 110, Horizon) >>
    /\ trades = <<openTrade("BUY", 100, 10, 1, StartMinute)>>
    /\ trade_exits = EmptyBag
    /\ mon = [m \in Monitors |-> idleMonitor]
    /\ simulator_mode = "SIMULATOR"
    /\ simulated_trades = <<>>
    /\ learning_adjustments = <<>>
    /\ system_logs = EmptyBag
    /\ learner = [w \in Learners |-> idleLearner]
    /\ learning_response = noLearningResponse
    /\ analysis = noAnalysis
    /\ candles = <<>>
    /\ indicators_response = noIndicatorsResponse
    /\ requests = [p \in Requesters |-> idleRequest]
    /\ exit_response = noExitResponse
    /\ sim = [q \in Simulators |-> idleSimulator]

NextRegime ==
    \/ classify_market
    \/ Tick(RegimeValidMinutes, StartMinute + MaxRegimeTicks * RegimeValidMinutes)
    \/ update_market_data(100, strongIndicators)
    \/ score_signal(NullNum)
    \/ check_entry
    \/ mon_start(1)
    \/ mon_eval(1)
    \/ mon_close(1)
    \/ mon_read_state(1)
    \/ mon_write_state(1)
    \/ execute_signal(1)
    \/ process_new_signals

SpecRegime == InitRegime /\ [][NextRegime]_vars

(***************************************************************************)
(* The indicator engine alone, over candle series of every length up to    *)
(* MaxCandles, supplied newest first: a steady rise, a steady fall, a      *)
(* market hopping between two prices on uneven volume, a market at rest    *)
(* without volume.                                                         *)
(***************************************************************************)
MaxCandles == 36

Shapes == {"rising", "falling", "choppy", "idle"}

candle(open, high, low, close, volume) ==
    [open |-> open, high |-> high, low |-> low, close |-> close, volume |-> volume]

\* the j-th candle of a series in time
bar(shape, j) ==
    CASE shape = "rising" -> candle(99 + j, 101 + j, 98 + j, 100 + j, 10)
      [] shape = "falling" -> candle(141 - j, 142 - j, 139 - j, 140 - j, 10)
      [] shape = "choppy" -> candle(100 + 2 * ((j + 1) % 2), 103, 99, 100 + 2 * (j % 2),
                                    10 + (j % 3))
      [] shape = "idle" -> candle(100, 100, 100, 100, 0)

series(shape, n) == [k \in 1..n |-> bar(shape, n + 1 - k)]

InitIndicators ==
    /\ now = StartMinute
    /\ market_conditions = NoRow
    /\ trading_state = NoRow
    /\ trading_rules = defaultRules
    /\ indicator_cache = NoRow
    /\ response = noResponse
    /\ last_price = 100
    /\ signals = <<>>
    /\ trades = <<>>
    /\ trade_exits = EmptyBag
    /\ mon = [m \in Monitors |-> idleMonitor]
    /\ simulator_mode = "SIGNAL_ONLY"
    /\ simulated_trades = <<>>
    /\ learning_adjustments = <<>>
    /\ system_logs = EmptyBag
    /\ learner = [w \in Learners |-> idleLearner]
    /\ learning_response = noLearningResponse
    /\ analysis = noAnalysis
    /\ candles \in {series(shape, n) : shape \in Shapes, n \in 0..MaxCandles}
    /\ indicators_response = noIndicatorsResponse
    /\ requests = [p \in Requesters |-> idleRequest]
    /\ exit_response = noExitResponse
    /\ sim = [q \in Simulators |-> idleSimulator]

NextIndicators == compute_indicators

SpecIndicators == InitIndicators /\ [][NextIndicators]_vars

(***************************************************************************)
(* Concurrent trading-intelligence requests on a day that has no state     *)
(* row yet.                                                                *)
(***************************************************************************)
Actions == {"score_signal", "check_entry", "get_status"}

InitState ==
    /\ now = StartMinute
    /\ market_conditions = NoRow
    /\ trading_state = NoRow
    /\ trading_rules = defaultRules
    /\ indicator_cache \in {NoRow, <<strongIndicators>>}
    /\ response = noResponse
    /\ last_price = 100
    /\ signals = <<>>
    /\ trades = <<>>
    /\ trade_exits = EmptyBag
    /\ mon = [m \in Monitors |-> idleMonitor]
    /\ simulator_mode = "SIGNAL_ONLY"
    /\ simulated_trades = <<>>
    /\ learning_adjustments = <<>>
    /\ system_logs = EmptyBag
    /\ learner = [w \in Learners |-> idleLearner]
    /\ learning_response = noLearningResponse
    /\ analysis = noAnalysis
    /\ candles = <<>>
    /\ indicators_response = noIndicatorsResponse
    /\ requests = [p \in Requesters |-> idleRequest]
    /\ exit_response = noExitResponse
    /\ sim = [q \in Simulators |-> idleSimulator]

NextState ==
    \E p \in Requesters :
       \/ \E action \in Actions : ti_lookup(p, action)
       \/ ti_insert(p)
       \/ ti_answer(p)

SpecState == InitState /\ [][NextState]_vars

(***************************************************************************)
(* A trading day from its start: the day's trading_state row may not      *)
(* exist yet, the simulator opens positions, one monitor_all request at a  *)
(* time closes trades.  The rule set allows DayTradeLimit trades a day.    *)
(***************************************************************************)
DayTradeLimit == 1

InitDay ==
    /\ now = StartMinute
    /\ market_conditions = NoRow
    /\ trading_state \in {NoRow, <<newTradingState(StartMinute)>>}
    /\ trading_rules = [defaultRules EXCEPT !.max_daily_trades = DayTradeLimit]
    /\ indicator_cache = <<strongIndicators>>
    /\ response = noResponse
    /\ last_price = 100
    /\ signals = << signalRow("BUY", 100, 110, 95, Horizon),
                    signalRow("SELL", 100, 95, 110, Horizon) >>
    /\ trades = << openTrade("BUY", 100, 10, 1, StartMinute),
                   openTrade("SELL", 100, 1, 2, StartMinute) >>
    /\ trade_exits = EmptyBag
    /\ mon = [m \in Monitors |-> idleMonitor]
    /\ simulator_mode = "SIMULATOR"
    /\ simulated_trades = <<>>
    /\ learning_adjustments = <<>>
    /\ system_logs = EmptyBag
    /\ learner = [w \in Learners |-> idleLearner]
    /\ learning_response = noLearningResponse
    /\ analysis = noAnalysis
    /\ candles = <<>>
    /\ indicators_response = noIndicatorsResponse
    /\ requests = [p \in Requesters |-> idleRequest]
    /\ exit_response = noExitResponse
    /\ sim = [q \in Simulators |-> idleSimulator]

NextDay ==
    \/ score_signal(NullNum)
    \/ check_entry
    \/ mon_start(1)
    \/ mon_eval(1)
    \/ mon_close(1)
    \/ mon_read_state(1)
    \/ mon_write_state(1)
    \/ \E signalId \in DOMAIN signals : execute_signal(signalId)
    \/ process_new_signals
    \/ \E price \in Prices : update_market_data(price, strongIndicators)

SpecDay == InitDay /\ [][NextDay]_vars

(***************************************************************************)
(* The analysis of score buckets alone: two scored signals, each with any *)
(* raw score and any final score or none, and at most one closed trade on  *)
(* each, won or lost.                                                      *)
(***************************************************************************)
RawScores == {50, 85}

FinalScores == {NullNum, 0, 45, 65, 100}

BucketHistories ==
    { <<closedTrade(1, 10, StartMinute)>>,
      <<closedTrade(1, -5, StartMinute)>>,
      <<closedTrade(1, 10, StartMinute), closedTrade(2, -5, StartMinute)>>,
      <<closedTrade(1, -5, StartMinute), closedTrade(2, 5, StartMinute)>> }

InitBuckets ==
    /\ now = StartMinute
    /\ market_conditions = NoRow
    /\ trading_state = <<newTradingState(StartMinute)>>
    /\ trading_rules = defaultRules
    /\ indicator_cache = NoRow
    /\ response = noResponse
    /\ last_price = 100
    /\ \E r1 \in RawScores, r2 \in RawScores, f1 \in FinalScores, f2 \in FinalScores :
          signals = << [signalRow("BUY", 100, 110, 95, Horizon) EXCEPT
                           !.raw_score = r1, !.final_score = f1,
                           !.market_condition = "TRENDING"],
                       [signalRow("SELL", 100, 95, 110, Horizon) EXCEPT
                           !.raw_score = r2, !.final_score = f2,
                           !.market_condition = "RANGE"] >>
    /\ trades \in BucketHistories
    /\ learning_adjustments = <<>>
    /\ trade_exits = EmptyBag
    /\ mon = [m \in Monitors |-> idleMonitor]
    /\ simulator_mode = "SIGNAL_ONLY"
    /\ simulated_trades = <<>>
    /\ system_logs = EmptyBag
    /\ learner = [w \in Learners |-> idleLearner]
    /\ learning_response = noLearningResponse
    /\ analysis = noAnalysis
    /\ candles = <<>>
    /\ indicators_response = noIndicatorsResponse
    /\ requests = [p \in Requesters |-> idleRequest]
    /\ exit_response = noExitResponse
    /\ sim = [q \in Simulators |-> idleSimulator]

NextBuckets == analyze

SpecBuckets == InitBuckets /\ [][NextBuckets]_vars

(***************************************************************************)
(* The simulator's monitor alone, over what it can read: one open          *)
(* simulated trade, long or short, 0, 40 or 70 minutes old, with or        *)
(* without target and stop-loss, any fresh regime or none, any indicator   *)
(* row or none, any price or none.                                         *)
(***************************************************************************)
InitSim ==
    /\ now \in ExitClock
    /\ market_conditions \in FreshRegimeRows
    /\ trading_state = <<newTradingState(StartMinute)>>
    /\ trading_rules = defaultRules
    /\ indicator_cache \in {NoRow} \cup {<<row>> : row \in IndicatorRows}
    /\ response = noResponse
    /\ last_price \in Prices \cup {NullNum}
    /\ \E s \in ExitSignals :
          /\ signals = <<s>>
          /\ simulated_trades = <<createSimulatedTrade(s, 1, "RANGE", StartMinute)>>
    /\ trades = <<>>
    /\ trade_exits = EmptyBag
    /\ mon = [m \in Monitors |-> idleMonitor]
    /\ simulator_mode = "SIMULATOR"
    /\ learning_adjustments = <<>>
    /\ system_logs = EmptyBag
    /\ learner = [w \in Learners |-> idleLearner]
    /\ learning_response = noLearningResponse
    /\ analysis = noAnalysis
    /\ candles = <<>>
    /\ indicators_response = noIndicatorsResponse
    /\ requests = [p \in Requesters |-> idleRequest]
    /\ exit_response = noExitResponse
    /\ sim = [q \in Simulators |-> idleSimulator]

NextSim ==
    \/ sim_monitor_start(1)
    \/ sim_monitor_trade(1)
    \/ sim_monitor_end(1)

SpecSim == InitSim /\ [][NextSim]_vars

(***************************************************************************)
(* Concurrent execute_signal and process_new_signals requests over two    *)
(* active signals, the simulator switched on.                              *)
(***************************************************************************)
InitRace ==
    /\ now = StartMinute
    /\ market_conditions \in {NoRow, <<[condition |-> "TRENDING", expires_at |-> Horizon]>>}
    /\ trading_state = <<newTradingState(StartMinute)>>
    /\ trading_rules = defaultRules
    /\ indicator_cache = NoRow
    /\ response = noResponse
    /\ last_price = 100
    /\ signals = << signalRow("BUY", 100, 110, 95, Horizon),
                    signalRow("SELL", 100, 95, 110, Horizon) >>
    /\ simulated_trades = <<>>
    /\ trades = <<>>
    /\ trade_exits = EmptyBag
    /\ mon = [m \in Monitors |-> idleMonitor]
    /\ simulator_mode = "SIMULATOR"
    /\ learning_adjustments = <<>>
    /\ system_logs = EmptyBag
    /\ learner = [w \in Learners |-> idleLearner]
    /\ learning_response = noLearningResponse
    /\ analysis = noAnalysis
    /\ candles = <<>>
    /\ indicators_response = noIndicatorsResponse
    /\ requests = [p \in Requesters |-> idleRequest]
    /\ exit_response = noExitResponse
    /\ sim = [q \in Simulators |-> idleSimulator]

NextRace ==
    \E q \in Simulators :
       \/ \E signalId \in DOMAIN signals : sim_execute_start(q, signalId)
       \/ sim_execute_create(q)
       \/ sim_process_start(q)
       \/ sim_process_create(q)

SpecRace == InitRace /\ [][NextRace]_vars

(***************************************************************************)
(* apply_adjustments run again and again, one request at a time, over one *)
(* fresh min_score_threshold proposal; the live threshold starts up to     *)
(* MaxDistance points below or above the proposed value.                   *)
(***************************************************************************)
MaxDistance == 5

ProposedThresholds == {55, 70}

InitConverge ==
    /\ now = StartMinute
    /\ market_conditions = NoRow
    /\ trading_state = <<newTradingState(StartMinute)>>
    /\ \E proposed \in ProposedThresholds, distance \in (0 - MaxDistance)..MaxDistance :
          /\ trading_rules =
                [defaultRules EXCEPT !.min_score_threshold = proposed + distance]
          /\ learning_adjustments =
                <<adjustment("min_score_threshold", 60, proposed, StartMinute)>>
    /\ indicator_cache = NoRow
    /\ response = noResponse
    /\ last_price = 100
    /\ signals = <<>>
    /\ trades = <<>>
    /\ trade_exits = EmptyBag
    /\ mon = [m \in Monitors |-> idleMonitor]
    /\ simulator_mode = "SIGNAL_ONLY"
    /\ simulated_trades = <<>>
    /\ system_logs = EmptyBag
    /\ learner = [w \in Learners |-> idleLearner]
    /\ learning_response = noLearningResponse
    /\ analysis = noAnalysis
    /\ candles = <<>>
    /\ indicators_response = noIndicatorsResponse
    /\ requests = [p \in Requesters |-> idleRequest]
    /\ exit_response = noExitResponse
    /\ sim = [q \in Simulators |-> idleSimulator]

NextConverge ==
    \/ apply_read_rules(1)
    \/ apply_fetch(1)
    \/ apply_write(1)

\* the next request is always made and always served
SpecConverge == InitConverge /\ [][NextConverge]_vars /\ WF_vars(NextConverge)

(***************************************************************************)
(* Properties of the trading day (Spec) and of concurrent monitoring       *)
(* (SpecMon)                                                               *)
(***************************************************************************)
\* The capital-protection stop of today's trading_state row is reached.
StopReached ==
    LET st == stateOfToday(trading_state, now) IN
    /\ st # NoRow
    /\ \/ st[1].consecutive_losses >= trading_rules.consecutive_loss_limit
       \/ st[1].daily_pnl <= -trading_rules.max_daily_loss

\* C1: once consecutive_losses >= consecutive_loss_limit or
\* daily_pnl <= -max_daily_loss, no step accepts a new entry: a scoring
\* response reports isTradable / canEnter = false and no simulated trade is
\* opened.
C1_NoEntryOnceStopped ==
    [][StopReached =>
         /\ simulated_trades' = simulated_trades
         /\ (response' # response => ~response'.ok)]_vars

RECURSIVE sumPnl(_, _)
sumPnl(rows, bag) ==
    IF rows = {} THEN 0
    ELSE LET r == CHOOSE x \in rows : TRUE
         IN CopiesIn(r, bag) * r.pnl_at_exit + sumPnl(rows \ {r}, bag)

\* sum of the PnL realised by the exits recorded so far
realisedPnl == sumPnl(BagToSet(trade_exits), trade_exits)

allIdle == \A m \in Monitors : mon[m].pc = "idle"

\* C2: when the monitor_all cycles have finished, no trading_state update
\* is lost: daily_pnl is the initial 0 plus the sum of all realised PnLs,
\* and a day of losing exits only has counted every one of them.
C2_NoLostUpdate ==
    allIdle =>
      /\ trading_state[1].daily_pnl = realisedPnl
      /\ (\A r \in BagToSet(trade_exits) : r.pnl_at_exit < 0)
            => trading_state[1].consecutive_losses = BagCardinality(trade_exits)

\* C3: a CLOSED trade never changes again (status, exit price, exit
\* reason, realised PnL, time held), and is closed at most once.
C3_ClosedIsImmutable ==
    [][\A id \in DOMAIN trades :
          trades[id].status = "CLOSED" => trades'[id] = trades[id]]_vars

(***************************************************************************)
(* Properties of the tradability gate (SpecScore)                          *)
(***************************************************************************)
\* A response that carries a scoring result.
scored == response.action # Null /\ response.error = Null

\* C9: scoring under regime NO_TRADE yields isTradable = false with a
\* non-null rejectionReason, whatever the raw score, the trading state and
\* the rule set; the signal row it scores is stored as not tradable.
C9_NoTradeNeverTradable ==
    /\ (scored /\ response.action = "score_signal"
               /\ response.marketCondition = "NO_TRADE")
          => ~response.ok /\ response.rejectionReason # Null
    /\ \A id \in DOMAIN signals :
          signals[id].market_condition = "NO_TRADE"
             => ~signals[id].is_tradable /\ signals[id].rejection_reason # Null

\* NO_TRADE was scored with the top raw score, nothing else standing in the
\* way (threshold 0, market open, clean trading state).
C9_Witness ==
    /\ scored
    /\ response.action = "score_signal"
    /\ response.marketCondition = "NO_TRADE"
    /\ response.rawScore = 100
    /\ trading_rules.min_score_threshold = 0
    /\ getTimeMultiplier(getUTCHours(now)) > 0
    /\ trading_state[1].auto_mode_active
    /\ trading_state[1].trades_today = 0
    /\ trading_state[1].daily_pnl = 0
    /\ trading_state[1].consecutive_losses = 0
    /\ ~response.ok

\* The reason the gate has to report for the state the response was computed
\* from: the first failing check in the documented order, Null when none
\* fails.
expectedReason ==
    LET st == trading_state[1]
        rules == trading_rules
    IN IF response.marketCondition = "NO_TRADE"
         THEN "Market conditions not suitable for trading"
       ELSE IF ~st.auto_mode_active
         THEN (IF st.stop_reason # Null THEN st.stop_reason ELSE "Auto-mode disabled")
       ELSE IF st.trades_today >= rules.max_daily_trades
         THEN "Daily trade limit reached (" \o ToString(rules.max_daily_trades) \o ")"
       ELSE IF st.daily_pnl <= -rules.max_daily_loss
         THEN "Daily loss limit reached (Rs" \o ToString(rules.max_daily_loss) \o ")"
       ELSE IF st.consecutive_losses >= rules.consecutive_loss_limit
         THEN "Consecutive loss limit reached ("
                 \o ToString(rules.consecutive_loss_limit) \o ")"
       ELSE IF response.finalScore < rules.min_score_threshold
         THEN "Score below threshold (" \o ToString(response.finalScore) \o " < "
                 \o ToString(rules.min_score_threshold) \o ")"
       ELSE IF getTimeMultiplier(getUTCHours(now)) = 0
         THEN "Market is closed"
       ELSE Null

\* C10: the gate reports the first failing check in the order NO_TRADE,
\* auto mode off, trades_today >= max_daily_trades, daily_pnl <=
\* -max_daily_loss, consecutive_losses >= consecutive_loss_limit,
\* finalScore < min_score_threshold, timeMultiplier = 0; the result is
\* tradable, with a null reason, exactly when none of the seven fails.
C10_FirstFailingCheckWins ==
    scored => /\ response.rejectionReason = expectedReason
              /\ response.ok <=> (expectedReason = Null)

\* Four checks fail at once (auto mode off, trade limit, loss limit,
\* consecutive losses) and the second one of the chain is reported.
C10_Witness ==
    /\ scored
    /\ response.marketCondition # "NO_TRADE"
    /\ ~trading_state[1].auto_mode_active
    /\ trading_state[1].stop_reason = Null
    /\ trading_state[1].trades_today >= trading_rules.max_daily_trades
    /\ trading_state[1].daily_pnl <= -trading_rules.max_daily_loss
    /\ trading_state[1].consecutive_losses >= trading_rules.consecutive_loss_limit
    /\ response.rejectionReason = "Auto-mode disabled"
    /\ ~response.ok

(***************************************************************************)
(* Properties of the learning engine (SpecLearn)                           *)
(***************************************************************************)
\* Request w leaves its write step.
applyEnds(w) == learner[w].pc = "write" /\ learner'[w].pc = "idle"

between(x, a, b) == (a <= x /\ x <= b) \/ (b <= x /\ x <= a)

RuleParameters == DOMAIN defaultRules

\* C4: a damped application never carries a rule parameter past the
\* proposed value nor away from it: whenever an apply_adjustments cycle
\* writes the rule set, every parameter either keeps the value the cycle
\* read or, having a proposal, lies between that value and the proposed
\* one.
C4_DampedStepStaysBetween ==
    [][\A w \in Learners : applyEnds(w) /\ trading_rules' # trading_rules =>
          \A param \in RuleParameters :
             \/ trading_rules'[param] = learner[w].rules[1][param]
             \/ \E k \in DOMAIN learner[w].adjustments :
                   /\ learner[w].adjustments[k].condition_type = param
                   /\ between(trading_rules'[param],
                              learner[w].rules[1][param],
                              learner[w].adjustments[k].adjusted_value)]_vars

\* A second cycle has stepped the threshold from 62 towards the proposed 70.
C4_Witness ==
    /\ trading_rules.min_score_threshold = 64
    /\ learning_response.appliedChanges = <<"min_score_threshold: 62 -> 64">>
    /\ \E k \in DOMAIN learning_adjustments :
          /\ learning_adjustments[k].condition_type = "min_score_threshold"
          /\ learning_adjustments[k].adjusted_value = 70

\* The live rule parameter a proposal type is about.
ruleParameterOf(condition_type) ==
    IF condition_type = "min_score_threshold" THEN "min_score_threshold"
    ELSE "market_multiplier"

ProposalTypes ==
    {"market_multiplier_trending", "market_multiplier_range",
     "market_multiplier_volatility", "min_score_threshold"}

\* C5: for every proposal inside the 24-hour window, whatever its type,
\* apply_adjustments sets the corresponding live rule parameter to
\* current + (proposed - current) * 0.2, exactly a fifth of the distance.
C5_EveryProposalAppliedExactly ==
    [][\A w \in Learners :
          applyEnds(w) =>
          \A k \in DOMAIN learning_adjustments :
             LET adj == learning_adjustments[k]
                 param == ruleParameterOf(adj.condition_type)
             IN (/\ adj.condition_type \in ProposalTypes
                 /\ adj.last_updated >= learner[w].since)
                => 5 * trading_rules'[param]
                      = 4 * learner[w].rules[1][param] + adj.adjusted_value]_vars

\* apply cycles that have written the rule set
appliedCycles == CopiesIn(applyLogMessage(1), system_logs)

\* The proposed threshold in the table, the current one when there is none.
proposedThreshold(current) ==
    LET ks == {k \in DOMAIN learning_adjustments :
                  learning_adjustments[k].condition_type = "min_score_threshold"}
    IN IF ks = {} THEN current
       ELSE learning_adjustments[CHOOSE k \in ks : TRUE].adjusted_value

\* The threshold after n cycles run one after the other.
RECURSIVE serialThreshold(_)
serialThreshold(n) ==
    IF n = 0 THEN defaultRules.min_score_threshold
    ELSE damped(serialThreshold(n - 1), proposedThreshold(serialThreshold(n - 1)))

learnersIdle == \A w \in Learners : learner[w].pc = "idle"

\* C6: concurrent apply cycles cannot apply overlapping partial deltas:
\* once the cycles have finished, the rule set is the one that the same
\* number of cycles produces when run one after the other.
C6_ConcurrentEqualsSerial ==
    learnersIdle =>
       trading_rules = [defaultRules EXCEPT
                           !.min_score_threshold = serialThreshold(appliedCycles)]

\* closed trades behind a proposal: those of the regime (last seven days),
\* or the closed trades counted in the score bucket
samplesBehind(adjustmentType) ==
    LET regimeTrades(c) ==
           Cardinality({id \in closedTrades(now) : conditionOfTrade(trades[id]) = c})
    IN CASE adjustmentType = "market_multiplier_trending" -> regimeTrades("TRENDING")
         [] adjustmentType = "market_multiplier_range" -> regimeTrades("RANGE")
         [] adjustmentType = "market_multiplier_volatility" -> regimeTrades("HIGH_VOLATILITY")
         [] adjustmentType = "min_score_threshold" -> bucketStats("60-80").total
         [] adjustmentType = "high_confidence_bonus" -> bucketStats("80-100").total

\* C7: no adjustment is proposed from fewer than 5 samples: every entry
\* that suggestAdjustments returns, regime multiplier or score threshold,
\* is backed by at least 5 closed trades of its regime or score bucket.
C7_NoProposalUnderFiveSamples ==
    learning_response.action = "analyze" =>
       \A k \in DOMAIN learning_response.suggestedAdjustments :
          samplesBehind(learning_response.suggestedAdjustments[k].adjustmentType)
             >= 5

\* C8: apply_adjustments never changes the rule set on account of a
\* proposal last updated more than 24 hours before the call: every change
\* of trading_rules is the damped step towards a proposal inside the
\* window, and with no proposal inside the window the rule set stays as it
\* is.
C8_OnlyProposalsOfLastDay ==
    [][trading_rules' # trading_rules =>
          \E w \in Learners :
             /\ applyEnds(w)
             /\ \E k \in DOMAIN learning_adjustments :
                   /\ learning_adjustments[k].last_updated >= learner[w].since
                   /\ trading_rules' =
                         [learner[w].rules[1] EXCEPT !.min_score_threshold =
                             damped(@, learning_adjustments[k].adjusted_value)]]_vars

\* A cycle found only a proposal older than 24 hours and left the rules.
C8_Witness ==
    /\ learning_response.message = "No recent adjustments to apply"
    /\ learning_adjustments # <<>>
    /\ \A k \in DOMAIN learning_adjustments :
          learning_adjustments[k].last_updated < now - ApplyWindow
    /\ trading_rules = defaultRules

\* The statement of C11 as made for every regime and every value of the
\* other trading-state fields: at the consecutive-loss limit score_signal
\* answers isTradable = false, "Consecutive loss limit reached (3)" and a
\* risk multiplier of 0.
C11_AnyRegimeAnyState ==
    (/\ scored
     /\ response.action = "score_signal"
     /\ trading_state[1].consecutive_losses = 3
     /\ trading_rules.consecutive_loss_limit = 3)
       => /\ ~response.ok
          /\ response.rejectionReason = "Consecutive loss limit reached (3)"
          /\ response.multipliers.risk = 0

\* No check that the gate makes before the consecutive-loss check fails.
earlierChecksPass ==
    /\ response.marketCondition # "NO_TRADE"
    /\ trading_state[1].auto_mode_active
    /\ trading_state[1].trades_today < trading_rules.max_daily_trades
    /\ trading_state[1].daily_pnl > -trading_rules.max_daily_loss

\* C11: with consecutive_losses = 3 and consecutive_loss_limit = 3,
\* score_signal answers isTradable = false and a risk multiplier of 0 for
\* every raw score, regime and trading state; the reason is "Consecutive
\* loss limit reached (3)" when no earlier check of the gate fails (regime
\* not NO_TRADE, auto mode on, trade and daily-loss limits not reached).
C11_StopAtLossLimit ==
    (/\ scored
     /\ response.action = "score_signal"
     /\ trading_state[1].consecutive_losses = 3
     /\ trading_rules.consecutive_loss_limit = 3)
       => /\ ~response.ok
          /\ response.multipliers.risk = 0
          /\ response.finalScore = 0
          /\ earlierChecksPass
                => response.rejectionReason = "Consecutive loss limit reached (3)"

\* The top raw score in a trend at the best time of day, stopped by the
\* third loss alone.
C11_Witness ==
    /\ scored
    /\ response.action = "score_signal"
    /\ response.rawScore = 100
    /\ response.marketCondition = "TRENDING"
    /\ response.multipliers.time = 10
    /\ trading_state[1].consecutive_losses = 3
    /\ trading_rules.consecutive_loss_limit = 3
    /\ earlierChecksPass
    /\ response.rejectionReason = "Consecutive loss limit reached (3)"
    /\ response.multipliers.risk = 0

\* C12: finalScore is always in [0,100]: for every raw score in [0,100],
\* regime, time of day, trading state and rule set, the score that the
\* scorer returns, and stores on the signal, lies between 0 and 100.
C12_FinalScoreInRange ==
    /\ scored => response.finalScore >= 0 /\ response.finalScore <= 100
    /\ \A id \in DOMAIN signals :
          signals[id].final_score >= 0 /\ signals[id].final_score <= 100

(***************************************************************************)
(* Properties of the exit evaluation (SpecExit)                            *)
(***************************************************************************)
\* what the evaluation of monitor 1 reads in the current state
evalTrade == mon[1].openTrades[mon[1].i].row

evalPrice == IF Truthy(last_price) THEN last_price ELSE evalTrade.entry_price

targetHit ==
    LET target == signals[evalTrade.signal_id].target_price IN
    /\ Truthy(target)
    /\ \/ evalTrade.trade_type = "BUY" /\ evalPrice >= target
       \/ evalTrade.trade_type = "SELL" /\ evalPrice <= target

stoplossHit ==
    LET stop == signals[evalTrade.signal_id].stoploss_price IN
    /\ Truthy(stop)
    /\ \/ evalTrade.trade_type = "BUY" /\ evalPrice <= stop
       \/ evalTrade.trade_type = "SELL" /\ evalPrice >= stop

regimeFlip == mon[1].marketCondition \in {"NO_TRADE", "HIGH_VOLATILITY"}

compositeScore == exitScoreOf(evalTrade, evalPrice, indicator_cache, now - evalTrade.opened_at)

exitsAs(exitType, confidence) ==
    /\ mon'[1].pc = "close"
    /\ mon'[1].exitType = exitType
    /\ mon'[1].confidence = confidence

\* C13: every evaluation takes the first matching check of the fixed order:
\* a reached target gives TARGET_HIT with confidence 100 whatever the regime
\* and the indicators; otherwise a reached stop-loss gives STOPLOSS_HIT with
\* confidence 100; otherwise a regime of NO_TRADE or HIGH_VOLATILITY gives
\* EARLY_EXIT with confidence 85; otherwise the composite score decides
\* (EARLY_EXIT from 50 points on, no exit below).
C13_FirstMatchIsTerminal ==
    [][mon[1].pc = "eval" /\ mon'[1] # mon[1] =>
         IF targetHit THEN exitsAs("TARGET_HIT", 100)
         ELSE IF stoplossHit THEN exitsAs("STOPLOSS_HIT", 100)
         ELSE IF regimeFlip
           THEN /\ exitsAs("EARLY_EXIT", 85)
                /\ mon'[1].exitReason =
                      "Market condition changed to " \o mon[1].marketCondition
         ELSE IF compositeScore >= 50
           THEN /\ mon'[1].pc = "close"
                /\ mon'[1].exitType = "EARLY_EXIT"
                /\ mon'[1].confidence =
                      (IF compositeScore + 20 < 95 THEN compositeScore + 20 ELSE 95)
         ELSE mon'[1].pc # "close"]_vars

\* A long trade at its target of 110 is closed as TARGET_HIT with confidence
\* 100 while the regime is NO_TRADE and the indicators (RSI 80, thin volume,
\* price under VWAP) would all ask for an early exit.
C13_Witness ==
    /\ mon[1].pc = "close"
    /\ mon[1].exitType = "TARGET_HIT"
    /\ mon[1].confidence = 100
    /\ mon[1].currentPrice = 110
    /\ trades[1].trade_type = "BUY"
    /\ mon[1].marketCondition = "NO_TRADE"
    /\ indicator_cache # NoRow
    /\ indicator_cache[1].rsi = 80

(***************************************************************************)
(* Properties of the session clock (SpecClock)                             *)
(***************************************************************************)
\* minute of the day in IST (UTC + 05:30)
istMinute(t) == (t + 330) % MinutesPerDay

\* the session table, by IST minute of the day
sessionOf(t) ==
    LET m == istMinute(t) IN
    IF m < 9 * 60 + 15 \/ m >= 15 * 60 + 30 THEN "MARKET_CLOSED"
    ELSE IF m < 10 * 60 THEN "OPENING_VOLATILITY"
    ELSE IF m < 11 * 60 + 30 THEN "MORNING_SESSION"
    ELSE IF m < 14 * 60 THEN "MIDDAY_LULL"
    ELSE IF m < 15 * 60 THEN "AFTERNOON_SESSION"
    ELSE "CLOSING_HOUR"

\* the time multiplier of each session, in tenths
sessionMultiplier(period) ==
    CASE period = "MARKET_CLOSED" -> 0
      [] period = "OPENING_VOLATILITY" -> 7
      [] period = "MORNING_SESSION" -> 10
      [] period = "MIDDAY_LULL" -> 8
      [] period = "AFTERNOON_SESSION" -> 10
      [] period = "CLOSING_HOUR" -> 6

\* C14: at every minute of the day the classifier's time-of-day bucket is
\* the one the IST session table gives for that minute, and the scorer's
\* time multiplier is that bucket's multiplier.
C14_BucketOfEveryMinute ==
    /\ analysis # noAnalysis => analysis.timeOfDay = sessionOf(now)
    /\ (scored /\ response.action = "score_signal")
          => response.multipliers.time = sessionMultiplier(sessionOf(now))

(***************************************************************************)
(* Properties of the classification (SpecClassify)                         *)
(***************************************************************************)
classified == analysis # noAnalysis

marketOpen == sessionOf(now) # "MARKET_CLOSED"

\* the snapshots that have a value in the column
withValue(column) == {k \in DOMAIN indicator_cache : indicator_cache[k][column] # NullNum}

withData == withValue("trend_strength") \cup withValue("atr") \cup withValue("relative_volume")

\* the total the mean of a column is taken from
totalValue(column) == totalOf(indicator_cache, column, 1)

\* C15: with the market open and no snapshot holding a trend strength, an
\* ATR or a relative volume (an empty list or all-null snapshots), the
\* classification is NO_TRADE with confidence 50; and the trend and volume
\* classes reported come from the means over the snapshots that have a
\* value.
C15_NoDataIsNoTrade ==
    (classified /\ marketOpen) =>
       /\ withData = {} => (analysis.condition = "NO_TRADE" /\ analysis.confidence = 50)
       /\ withValue("trend_strength") # {} =>
             analysis.indexDirection =
                analyzeTrend(totalValue("trend_strength"),
                             Cardinality(withValue("trend_strength"))).direction
       /\ withValue("relative_volume") # {} =>
             analysis.volumeBehavior =
                analyzeVolume(totalValue("relative_volume"),
                              Cardinality(withValue("relative_volume"))).behavior

\* the class a mean belongs to, the mean being total / n over the snapshots
\* that have a value
meanAbove(column, limit) ==
    /\ withValue(column) # {}
    /\ totalValue(column) > limit * Cardinality(withValue(column))

extremeVolatility == meanAbove("atr", 30)

dryVolume ==
    /\ withValue("relative_volume") # {}
    /\ ~meanAbove("relative_volume", 50)

healthyVolume == meanAbove("relative_volume", 80)

trending ==
    /\ withValue("trend_strength") # {}
    /\ Abs(totalValue("trend_strength")) > 20 * Cardinality(withValue("trend_strength"))

optimalTime == sessionOf(now) \in {"MORNING_SESSION", "AFTERNOON_SESSION"}

\* min(90, 60 + |meanTrend| / 2), to the nearest whole number
trendingConfidenceOfMean ==
    LET n == Cardinality(withValue("trend_strength"))
        c == 120 * n + Abs(totalValue("trend_strength"))
    IN MathRound(IF c < 180 * n THEN c ELSE 180 * n, 2 * n)

classifiedAs(condition, confidence) ==
    analysis.condition = condition /\ analysis.confidence = confidence

\* C16: with the market closed the classification is NO_TRADE with
\* confidence 100 whatever the snapshots; with the market open and data
\* present it is the first match of: extreme volatility gives
\* HIGH_VOLATILITY (85), non-optimal time with dry volume gives NO_TRADE
\* (75), |meanTrend| > 20 with volume at least NORMAL gives TRENDING
\* (min(90, 60 + |meanTrend| / 2)), no trend gives RANGE (70), otherwise
\* RANGE (50).
C16_FirstMatchingRegime ==
    classified =>
       IF ~marketOpen THEN classifiedAs("NO_TRADE", 100)
       ELSE withData # {} =>
              IF extremeVolatility THEN classifiedAs("HIGH_VOLATILITY", 85)
              ELSE IF ~optimalTime /\ dryVolume THEN classifiedAs("NO_TRADE", 75)
              ELSE IF trending /\ healthyVolume
                THEN classifiedAs("TRENDING", trendingConfidenceOfMean)
              ELSE IF ~trending THEN classifiedAs("RANGE", 70)
              ELSE classifiedAs("RANGE", 50)

(***************************************************************************)
(* Properties of the regime's validity window (SpecRegime)                 *)
(***************************************************************************)
\* the newest regime record is still within its window
regimeInWindow == market_conditions # NoRow /\ market_conditions[1].expires_at >= now

\* what a reader may act on: the record in its window, else what it takes
\* when nothing was ever classified
regimeToActOn == IF regimeInWindow THEN market_conditions[1].condition ELSE "RANGE"

\* C17: whenever the scorer answers, the exit monitor starts a pass or the
\* simulator opens a trade, the regime it takes is that of a record with
\* expires_at >= now, and with no such record (none at all, or only an
\* expired one) it takes RANGE, as it does before any classification.
C17_ExpiredRegimeIsAbsent ==
    [][/\ (response' # response /\ response'.error = Null)
            => response'.marketCondition = regimeToActOn
       /\ (mon[1].pc = "idle" /\ mon'[1].pc # "idle")
            => mon'[1].marketCondition = regimeToActOn
       /\ \A k \in DOMAIN simulated_trades' \ DOMAIN simulated_trades :
            simulated_trades'[k].market_condition = regimeToActOn]_vars

\* A simulated trade opened after the NO_TRADE record ran out: it is opened
\* (NO_TRADE would forbid it) and carries RANGE.
C17_Witness ==
    /\ market_conditions # NoRow
    /\ market_conditions[1].condition = "NO_TRADE"
    /\ \E k \in DOMAIN simulated_trades :
          /\ simulated_trades[k].entry_time > market_conditions[1].expires_at
          /\ simulated_trades[k].market_condition = "RANGE"

(***************************************************************************)
(* Properties of the indicator engine (SpecIndicators)                     *)
(***************************************************************************)
\* the snapshot of the candles has been computed and answered
computed == indicators_response.error = Null /\ indicators_response.dataPoints > 0

\* the same candles with the first two exchanged
firstTwoSwapped(data) ==
    IF Len(data) < 2 THEN data
    ELSE [k \in 1..Len(data) |-> IF k = 1 THEN data[2] ELSE IF k = 2 THEN data[1] ELSE data[k]]

\* C18: the snapshot does not depend on the order in which the candles are
\* supplied: the same candles in reverse order, or with the first two
\* exchanged, give the snapshot that was answered.
C18_OrderOfCandlesIrrelevant ==
    computed =>
       /\ computeAllIndicators(reverse(candles)) = indicators_response.indicators
       /\ computeAllIndicators(firstTwoSwapped(candles)) = indicators_response.indicators

\* C19: for a series shorter than an indicator's window that indicator is
\* null (RSI and ATR below 15 candles, MACD below 26, trend strength below
\* 20, relative volume below 21), the indicators whose window is filled are
\* computed all the same, and the request is answered without an error.
C19_ShortSeriesGivesNull ==
    (candles # <<>> /\ indicators_response # noIndicatorsResponse) =>
       LET n == Len(candles)
           snapshot == indicators_response.indicators
       IN /\ indicators_response.error = Null
          /\ n < 15 => snapshot.rsi = NullNum /\ snapshot.atr = NullNum
          /\ n < 26 => /\ snapshot.macd = NullNum
                       /\ snapshot.macdSignal = NullNum
                       /\ snapshot.macdHistogram = NullNum
          /\ n < 20 => snapshot.trendStrength = NullNum
          /\ n < 21 => snapshot.relativeVolume = NullNum
          /\ n >= 15 => snapshot.rsi # NullNum /\ snapshot.atr # NullNum
          /\ n >= 20 => snapshot.trendStrength # NullNum
          /\ candles[1].volume > 0 => snapshot.vwap # NullNum

(***************************************************************************)
(* Properties of the day's state row (SpecState)                           *)
(***************************************************************************)
rowsOfToday == {k \in DOMAIN trading_state : trading_state[k].date = today(now)}

\* C20: there is never more than one trading_state row for the day (the
\* requests carry no user id), and once a request has been answered and
\* none is in flight there is exactly one.
C20_OneStateRowPerDay ==
    /\ Cardinality(rowsOfToday) <= 1
    /\ (response # noResponse /\ \A p \in Requesters : requests[p].pc = "idle")
          => Cardinality(rowsOfToday) = 1

(***************************************************************************)
(* Properties of a trading day from its start (SpecDay)                    *)
(***************************************************************************)
\* the monitor_all request has closed a trade and leaves its state update
closeHandled ==
    /\ mon[1].pc \in {"read_state", "write_state"}
    /\ mon'[1].pc \notin {"read_state", "write_state"}

\* C21: when monitor_all has closed a trade, the day's trading_state row
\* holds the outcome: daily_pnl has grown by the trade's realised PnL
\* (exit - entry) * quantity * (+1 BUY, -1 SELL), and consecutive_losses is
\* one more after a loss and 0 otherwise.
C21_ClosedTradeReachesState ==
    [][closeHandled =>
         LET id == mon[1].openTrades[mon[1].i].id
             pnl == pnlOf(trades[id], trades[id].exit_price)
             before == stateOfToday(trading_state, now)
             after == stateOfToday(trading_state', now)
             was(field) == IF before = NoRow THEN 0 ELSE before[1][field]
         IN /\ after # NoRow
            /\ after[1].daily_pnl = was("daily_pnl") + pnl
            /\ after[1].consecutive_losses =
                  IF pnl < 0 THEN was("consecutive_losses") + 1 ELSE 0]_vars

\* positions opened since the start of the day
positionsOpenedToday ==
    Cardinality({k \in DOMAIN simulated_trades :
                   today(simulated_trades[k].entry_time) = today(now)})

\* C22: once max_daily_trades positions have been opened today, no
\* further position is opened and every score_signal / check_entry answer
\* is a rejection with the reason "Daily trade limit reached (n)".
C22_DailyTradeLimitEnforced ==
    [][positionsOpenedToday >= trading_rules.max_daily_trades =>
         /\ simulated_trades' = simulated_trades
         /\ response' # response =>
               /\ ~response'.ok
               /\ response'.rejectionReason =
                     "Daily trade limit reached ("
                        \o ToString(trading_rules.max_daily_trades) \o ")"]_vars

(***************************************************************************)
(* Properties of check_single (SpecExit)                                   *)
(***************************************************************************)
\* check_single has answered for a trade
singleAnswered == exit_response.error = Null /\ exit_response.tradeId # NullNum

singleTrade == trades[exit_response.tradeId]

\* the weights of the factors that are triggered for that trade now
factorWeights ==
    LET minutesOpen == now - singleTrade.opened_at
        price == exit_response.currentPrice
    IN <<IF checkPriceStall(price, singleTrade.entry_price, minutesOpen) THEN 30 ELSE 0,
         IF checkMomentumWeakening(indicator_cache, singleTrade.trade_type) THEN 35 ELSE 0,
         IF checkVolumeDryUp(indicator_cache) THEN 25 ELSE 0,
         IF checkVwapLost(indicator_cache, price, singleTrade.trade_type) THEN 30 ELSE 0,
         IF minutesOpen > 60 THEN 15 ELSE 0>>

\* C23: with no target, stop or regime-flip rule firing, the decision is
\* made by the sum of the weights of the triggered factors (stall 30,
\* momentum 35, volume 25, VWAP 30, over 60 minutes 15): from 50 points on
\* EARLY_EXIT with confidence min(95, score + 20), below no exit with
\* confidence 100 - score; shouldExit is true exactly when exitType is
\* non-null and the confidence lies in 0..100.
C23_CompositeScoreDecides ==
    (singleAnswered /\ exit_response.marketCondition \notin {"NO_TRADE", "HIGH_VOLATILITY"})
    => LET score == sum(factorWeights) IN
       /\ IF score >= 50
          THEN /\ exit_response.exitType = "EARLY_EXIT"
               /\ exit_response.confidence = Min(95, score + 20)
          ELSE /\ exit_response.exitType = Null
               /\ exit_response.confidence = 100 - score
       /\ exit_response.shouldExit <=>
             /\ exit_response.exitType # Null
             /\ exit_response.confidence \in 0..100

\* A stalled price on thin volume after 70 minutes: 30 + 25 + 15 = 70 points,
\* an early exit with confidence 90.
C23_Witness ==
    /\ singleAnswered
    /\ exit_response.marketCondition = "RANGE"
    /\ sum(factorWeights) = 70
    /\ exit_response.exitType = "EARLY_EXIT"
    /\ exit_response.confidence = 90
    /\ exit_response.shouldExit

\* C27: check_single and monitor_all agree on a trade: when monitor_all
\* evaluates the trade check_single has answered for (same price,
\* indicators and regime), it decides the same shouldExit and exitType; a
\* reached target or stop-loss is TARGET_HIT or STOPLOSS_HIT for both.
C27_EntryPointsAgree ==
    [][(/\ mon[1].pc = "eval" /\ mon'[1] # mon[1]
        /\ singleAnswered
        /\ exit_response.tradeId = mon[1].openTrades[mon[1].i].id)
       => /\ exit_response.shouldExit <=> mon'[1].pc = "close"
          /\ mon'[1].pc = "close" => exit_response.exitType = mon'[1].exitType]_vars

(***************************************************************************)
(* Properties of the score buckets (SpecBuckets)                           *)
(***************************************************************************)
\* the bucket of a signal: by its final score when it has one
bucketOfSignal(s) ==
    LET score == IF s.final_score # NullNum THEN s.final_score ELSE s.raw_score IN
    CASE 0 <= score /\ score < 40 -> "0-40"
      [] 40 <= score /\ score < 60 -> "40-60"
      [] 60 <= score /\ score < 80 -> "60-80"
      [] 80 <= score /\ score <= 100 -> "80-100"

\* the signals with a closed trade that belong to bucket b
bucketMembers(b) ==
    {id \in DOMAIN signals :
        /\ \E k \in DOMAIN trades : trades[k].signal_id = id /\ trades[k].status = "CLOSED"
        /\ bucketOfSignal(signals[id]) = b}

bucketWinners(b) ==
    {id \in bucketMembers(b) :
        \E k \in DOMAIN trades : trades[k].signal_id = id /\ trades[k].pnl > 0}

\* C24: every signal with a closed trade is counted in exactly the bucket
\* of its final score ([0,40), [40,60), [60,80), [80,100]), never in that
\* of its raw score when it has a final score: the win rate reported for
\* each bucket is the one of the signals whose final score lies in it.
C24_BucketByFinalScore ==
    learning_response.action = "analyze" =>
       \A i \in DOMAIN learning_response.scoreEffectiveness :
          LET row == learning_response.scoreEffectiveness[i]
              members == bucketMembers(row.scoreBucket)
          IN row.winRate =
                IF members = {} THEN 0
                ELSE MathRound(100 * Cardinality(bucketWinners(row.scoreBucket)),
                               Cardinality(members))

(***************************************************************************)
(* Properties of the MACD windows (SpecIndicators)                         *)
(***************************************************************************)
\* C25: the MACD value is non-null exactly for series of at least 26
\* candles, the MACD histogram exactly for series of at least 35.
C25_MacdWindows ==
    computed =>
       LET n == Len(candles)
           snapshot == indicators_response.indicators
       IN /\ snapshot.macd # NullNum <=> n >= 26
          /\ snapshot.macdHistogram # NullNum <=> n >= 35

(***************************************************************************)
(* Properties of check_entry (SpecScore)                                   *)
(***************************************************************************)
\* C28: under the default rule set check_entry answers canEnter = true
\* whenever the regime is not NO_TRADE, auto mode is active, the market is
\* open and none of the trade-count, daily-loss and consecutive-loss
\* limits is reached.
C28_EntryAllowedWhenNothingForbids ==
    LET st == stateOfToday(trading_state, now) IN
    (/\ scored /\ response.action = "check_entry"
     /\ trading_rules = defaultRules
     /\ response.marketCondition # "NO_TRADE"
     /\ st # NoRow
     /\ st[1].auto_mode_active
     /\ getTimeMultiplier(getUTCHours(now)) # 0
     /\ st[1].trades_today < trading_rules.max_daily_trades
     /\ st[1].daily_pnl > -trading_rules.max_daily_loss
     /\ st[1].consecutive_losses < trading_rules.consecutive_loss_limit)
    => response.ok

(***************************************************************************)
(* Properties of the simulator (SpecSim, SpecRace)                         *)
(***************************************************************************)
\* the simulated trade as the exit monitor would see it
asTrade(row) ==
    [trade_type |-> row.direction, entry_price |-> row.entry_price,
     opened_at |-> row.entry_time]

\* C26: checkEarlyExit decides as evaluateExit does: every simulated trade
\* that monitor_trades has checked was exited exactly when evaluateExit
\* says shouldExit for the same position, price, indicators, regime,
\* target and stop-loss.
C26_SimulatorExitsAsMonitor ==
    \A k \in DOMAIN sim[1].results :
       LET result == sim[1].results[k]
           row == simulated_trades[result.tradeId]
           signal == signals[row.signal_id]
       IN result.status # "NO_PRICE" =>
            (result.exited <=>
               evaluateExit(asTrade(row), last_price, indicator_cache,
                            sim[1].marketCondition, signal.target_price,
                            signal.stoploss_price, now).shouldExit)

\* C29: at no time has a signal more than one OPEN simulated trade.
C29_OneOpenTradePerSignal ==
    \A id \in DOMAIN signals :
       Cardinality({k \in DOMAIN simulated_trades :
                      /\ simulated_trades[k].signal_id = id
                      /\ simulated_trades[k].status = "OPEN"}) <= 1

(***************************************************************************)
(* Properties of repeated application (SpecConverge)                       *)
(***************************************************************************)
\* distance of the live threshold from the proposed value
distanceToProposal ==
    Abs(trading_rules.min_score_threshold - learning_adjustments[1].adjusted_value)

\* C30, as claimed: with apply_adjustments run again and again on the same
\* fresh proposal, the live threshold eventually equals the proposed value
\* and stays there.
C30_ReachesProposal == <>[](distanceToProposal = 0)

\* C30, amended: the live threshold eventually comes within 2 points of
\* the proposed value and stays there, at a value the damped step maps to
\* itself.
C30_SettlesNearProposal ==
    <>[](/\ distanceToProposal <= 2
         /\ damped(trading_rules.min_score_threshold,
                   learning_adjustments[1].adjusted_value)
               = trading_rules.min_score_threshold)

\* Three applications have taken the threshold from 65 to 68, 2 points
\* short of the proposed 70.
C30_Witness ==
    /\ learner[1].pc = "idle"
    /\ CopiesIn(applyLogMessage(1), system_logs) = 3
    /\ learning_adjustments[1].adjusted_value = 70
    /\ trading_rules.min_score_threshold = 68

====
